---- MODULE Spec2Model ----
(***************************************************************************)
(* Tool registry and dispatch router of the GoHighLevel MCP server.        *)
(*                                                                         *)
(* Two adapters serve the same 19 capability groups: the duplex-pipe       *)
(* server (src/src/server.ts, class GHLMCPServer) and the HTTP/event-      *)
(* stream server (src/src/http-server.ts, class GHLMCPHttpServer).  The    *)
(* describe handler (src/unnamed/part_002, class DescribeHandler) holds a  *)
(* second copy of the category classifier.                                 *)
(*                                                                         *)
(* Strings are TLA+ strings; a character is a string of length 1.          *)
(***************************************************************************)
EXTENDS Integers, Sequences, FiniteSets, TLC

VARIABLES
    request,     \* the invocation both adapters are given: [name, args]
    behaviour,   \* what the owning group's execute does for this invocation
    pc,          \* per adapter: position of its CallTool handler
    branch,      \* per adapter: branch of the routing chain that was taken
    calls,       \* per adapter: execute calls made during the invocation
    outcome,     \* per adapter: what left the handler
    extraDefs,   \* definitions published besides those of the name lists: [group, name]
    phase,       \* start-up position of the process
    served,      \* the catalog returned by the last list request
    tools,       \* the classifier's input: a sequence of tool definitions
    categories,  \* per classifier copy: its outputs on tools
    listMeta,    \* per adapter: the _meta of the last list response
    description, \* the describe-one requests made for one name and their answers
    pipe,        \* the duplex-pipe channel: requests arrived, handlers awaiting, responses sent
    sse,         \* the push channels: per client its channel, and the server's transport
    boot         \* the processes' start-up: environment, events so far, exit codes

vars == <<request, behaviour, pc, branch, calls, outcome, extraDefs, phase,
          served, tools, categories, listMeta, description, pipe, sse, boot>>

\* ---- bounds of the model ----
\* Largest magnitude of a number inside a JSON value returned by a group.
MaxNumber == 12
\* Longest sequence of tools given to the classifier.
MaxTools == 3
\* Largest number of definitions a group publishes besides its own.
MaxExtra == 2

\* ---- JavaScript strings and arrays ----

\* Array.prototype.includes
ArrIncludes(arr, x) == \E i \in 1..Len(arr) : arr[i] = x

\* String.prototype.includes
StrIncludes(s, sub) ==
    \E i \in 1..(Len(s) - Len(sub) + 1) : SubSeq(s, i, i + Len(sub) - 1) = sub

CharAt(s, i) == SubSeq(s, i, i)

UpperChars == "ABCDEFGHIJKLMNOPQRSTUVWXYZ"
LowerChars == "abcdefghijklmnopqrstuvwxyz"

\* Position of character c in string s, 0 when absent.
IndexOfChar(s, c) ==
    IF \E i \in 1..Len(s) : CharAt(s, i) = c
    THEN CHOOSE i \in 1..Len(s) : CharAt(s, i) = c
    ELSE 0

\* The lower-case letter of each upper-case letter.
LowerOf == [c \in {CharAt(UpperChars, i) : i \in 1..Len(UpperChars)} |->
               CharAt(LowerChars, IndexOfChar(UpperChars, c))]

\* String.prototype.toLowerCase
RECURSIVE toLowerCase(_)
toLowerCase(s) ==
    IF s = "" THEN ""
    ELSE (IF CharAt(s, 1) \in DOMAIN LowerOf THEN LowerOf[CharAt(s, 1)] ELSE CharAt(s, 1))
         \o toLowerCase(Tail(s))

\* UTF-16 code unit order of the characters that occur in tool names.
CodeOrder == "0123456789ABCDEFGHIJKLMNOPQRSTUVWXYZ_abcdefghijklmnopqrstuvwxyz"
CodeUnitOf == [c \in {CharAt(CodeOrder, i) : i \in 1..Len(CodeOrder)} |->
                 IndexOfChar(CodeOrder, c)]
CodeUnit(c) == CodeUnitOf[c]

\* a < b as Array.prototype.sort compares strings without a comparator.
RECURSIVE StrLess(_, _)
StrLess(a, b) ==
    IF b = "" THEN FALSE
    ELSE IF a = "" THEN TRUE
    ELSE IF CharAt(a, 1) = CharAt(b, 1) THEN StrLess(Tail(a), Tail(b))
    ELSE CodeUnit(CharAt(a, 1)) < CodeUnit(CharAt(b, 1))

\* ---- JSON values, JSON.stringify(value, null, 2) and JSON.parse ----

JNull == [t |-> "null"]
JBool(b) == [t |-> "bool", b |-> b]
JNum(n) == [t |-> "num", n |-> n]
JStr(s) == [t |-> "str", s |-> s]
JArr(items) == [t |-> "arr", items |-> items]
JObj(members) == [t |-> "obj", members |-> members]
Member(k, v) == [k |-> k, v |-> v]

Digits == "0123456789"

\* Number::toString of an integer
RECURSIVE NatToString(_)
NatToString(n) ==
    IF n < 10 THEN CharAt(Digits, n + 1)
    ELSE NatToString(n \div 10) \o CharAt(Digits, (n % 10) + 1)

NumberToString(n) == IF n < 0 THEN "-" \o NatToString(-n) ELSE NatToString(n)

\* QuoteJSONString
RECURSIVE EscapeJSONChars(_)
EscapeJSONChars(s) ==
    IF s = "" THEN ""
    ELSE LET c == CharAt(s, 1)
         IN (IF c = "\"" THEN "\\\""
             ELSE IF c = "\\" THEN "\\\\"
             ELSE IF c = "\n" THEN "\\n"
             ELSE c) \o EscapeJSONChars(Tail(s))

QuoteJSONString(s) == "\"" \o EscapeJSONChars(s) \o "\""

Gap == "  "

RECURSIVE SerializeJSONProperty(_, _)
RECURSIVE JoinItems(_, _, _)
RECURSIVE JoinMembers(_, _, _)

\* The elements of an array, each serialized at indent, joined by separator.
JoinItems(items, indent, separator) ==
    IF Len(items) = 0 THEN ""
    ELSE IF Len(items) = 1 THEN SerializeJSONProperty(items[1], indent)
    ELSE SerializeJSONProperty(items[1], indent) \o separator
         \o JoinItems(Tail(items), indent, separator)

\* The members of an object as "key": value, joined by separator.
JoinMembers(members, indent, separator) ==
    LET one(m) == QuoteJSONString(m.k) \o ":" \o " " \o SerializeJSONProperty(m.v, indent)
    IN IF Len(members) = 0 THEN ""
       ELSE IF Len(members) = 1 THEN one(members[1])
       ELSE one(members[1]) \o separator \o JoinMembers(Tail(members), indent, separator)

SerializeJSONProperty(value, stepback) ==
    LET indent == stepback \o Gap
        separator == "," \o "\n" \o indent
    IN CASE value.t = "null" -> "null"
         [] value.t = "bool" -> (IF value.b THEN "true" ELSE "false")
         [] value.t = "num" -> NumberToString(value.n)
         [] value.t = "str" -> QuoteJSONString(value.s)
         [] value.t = "arr" ->
                IF Len(value.items) = 0 THEN "[]"
                ELSE "[" \o "\n" \o indent \o JoinItems(value.items, indent, separator)
                     \o "\n" \o stepback \o "]"
         [] value.t = "obj" ->
                IF Len(value.members) = 0 THEN "{}"
                ELSE "{" \o "\n" \o indent \o JoinMembers(value.members, indent, separator)
                     \o "\n" \o stepback \o "}"

\* JSON.stringify(value, null, 2)
JSONstringify(value) == SerializeJSONProperty(value, "")

\* JSON.parse: a recursive-descent reader.  Each reader returns
\* [ok, val, rest]; ok is FALSE on text that is not JSON.
ParseFail == [ok |-> FALSE, val |-> JNull, rest |-> ""]
Parsed(v, rest) == [ok |-> TRUE, val |-> v, rest |-> rest]

RECURSIVE SkipWs(_)
SkipWs(s) ==
    IF s # "" /\ CharAt(s, 1) \in {" ", "\n", "\t", "\r"} THEN SkipWs(Tail(s)) ELSE s

StartsWith(s, p) == Len(s) >= Len(p) /\ SubSeq(s, 1, Len(p)) = p
Drop(s, n) == SubSeq(s, n + 1, Len(s))

\* Digits at the head of s, as [n, rest, some].
RECURSIVE ReadDigits(_, _, _)
ReadDigits(s, acc, some) ==
    IF s # "" /\ IndexOfChar(Digits, CharAt(s, 1)) > 0
    THEN ReadDigits(Tail(s), acc * 10 + IndexOfChar(Digits, CharAt(s, 1)) - 1, TRUE)
    ELSE [n |-> acc, rest |-> s, some |-> some]

\* The characters of a string literal after its opening quote.
RECURSIVE ReadStringBody(_, _)
ReadStringBody(s, acc) ==
    IF s = "" THEN ParseFail
    ELSE LET c == CharAt(s, 1)
         IN IF c = "\"" THEN Parsed(JStr(acc), Tail(s))
            ELSE IF c = "\\" THEN
                IF Len(s) < 2 THEN ParseFail
                ELSE LET e == CharAt(s, 2)
                     IN IF e = "n" THEN ReadStringBody(Drop(s, 2), acc \o "\n")
                        ELSE IF e \in {"\"", "\\", "/"} THEN ReadStringBody(Drop(s, 2), acc \o e)
                        ELSE ParseFail
            ELSE ReadStringBody(Tail(s), acc \o c)

RECURSIVE ParseValue(_)
RECURSIVE ParseItems(_, _)
RECURSIVE ParseMembers(_, _)

\* After "[" and at least one element: "," value ... "]".
ParseItems(s, acc) ==
    LET r == ParseValue(s)
    IN IF ~r.ok THEN ParseFail
       ELSE LET t == SkipWs(r.rest)
            IN IF StartsWith(t, ",") THEN ParseItems(Tail(t), Append(acc, r.val))
               ELSE IF StartsWith(t, "]") THEN Parsed(JArr(Append(acc, r.val)), Tail(t))
               ELSE ParseFail

ParseMembers(s, acc) ==
    LET t == SkipWs(s)
    IN IF ~StartsWith(t, "\"") THEN ParseFail
       ELSE LET k == ReadStringBody(Tail(t), "")
            IN IF ~k.ok THEN ParseFail
               ELSE LET u == SkipWs(k.rest)
                    IN IF ~StartsWith(u, ":") THEN ParseFail
                       ELSE LET r == ParseValue(Tail(u))
                            IN IF ~r.ok THEN ParseFail
                               ELSE LET w == SkipWs(r.rest)
                                        m == Append(acc, Member(k.val.s, r.val))
                                    IN IF StartsWith(w, ",") THEN ParseMembers(Tail(w), m)
                                       ELSE IF StartsWith(w, "}") THEN Parsed(JObj(m), Tail(w))
                                       ELSE ParseFail

ParseValue(text) ==
    LET s == SkipWs(text)
    IN IF StartsWith(s, "null") THEN Parsed(JNull, Drop(s, 4))
       ELSE IF StartsWith(s, "true") THEN Parsed(JBool(TRUE), Drop(s, 4))
       ELSE IF StartsWith(s, "false") THEN Parsed(JBool(FALSE), Drop(s, 5))
       ELSE IF StartsWith(s, "\"") THEN ReadStringBody(Tail(s), "")
       ELSE IF StartsWith(s, "[") THEN
            (IF StartsWith(SkipWs(Tail(s)), "]")
             THEN Parsed(JArr(<<>>), Tail(SkipWs(Tail(s))))
             ELSE ParseItems(Tail(s), <<>>))
       ELSE IF StartsWith(s, "{") THEN
            (IF StartsWith(SkipWs(Tail(s)), "}")
             THEN Parsed(JObj(<<>>), Tail(SkipWs(Tail(s))))
             ELSE ParseMembers(Tail(s), <<>>))
       ELSE LET neg == StartsWith(s, "-")
                d == ReadDigits(IF neg THEN Tail(s) ELSE s, 0, FALSE)
            IN IF d.some THEN Parsed(JNum(IF neg THEN -d.n ELSE d.n), d.rest)
               ELSE ParseFail

\* JSON.parse(text): the value, or ParseFail when text is not one JSON value.
JSONparse(text) ==
    LET r == ParseValue(text)
    IN IF r.ok /\ SkipWs(r.rest) = "" THEN r ELSE ParseFail

\* ---- the capability groups ----

\* The 19 groups in registration order (initializeTools, getAllTools).
Groups == <<"contactTools", "conversationTools", "blogTools", "opportunityTools",
            "calendarTools", "emailTools", "locationTools", "emailISVTools",
            "socialMediaTools", "mediaTools", "objectTools", "associationTools",
            "customFieldV2Tools", "workflowTools", "surveyTools", "storeTools",
            "productsTools", "paymentsTools", "invoicesTools">>

GroupSet == {Groups[i] : i \in 1..Len(Groups)}

Transports == {"stdio", "http"}

\* ---- src/src/http-server.ts: per-group membership predicates (GHLMCPHttpServer) ----
contactToolNames == <<
    "create_contact", "search_contacts", "get_contact", "update_contact",
    "add_contact_tags", "remove_contact_tags", "delete_contact", "get_contact_tasks",
    "create_contact_task", "get_contact_task", "update_contact_task", "delete_contact_task",
    "update_task_completion", "get_contact_notes", "create_contact_note",
    "get_contact_note", "update_contact_note", "delete_contact_note", "upsert_contact",
    "get_duplicate_contact", "get_contacts_by_business", "get_contact_appointments",
    "bulk_update_contact_tags", "bulk_update_contact_business", "add_contact_followers",
    "remove_contact_followers", "add_contact_to_campaign", "remove_contact_from_campaign",
    "remove_contact_from_all_campaigns", "add_contact_to_workflow",
    "remove_contact_from_workflow" >>

isContactTool(toolName) == ArrIncludes(contactToolNames, toolName)

conversationToolNames == <<
    "send_sms", "send_email", "search_conversations", "get_conversation",
    "create_conversation", "update_conversation", "delete_conversation",
    "get_recent_messages", "get_email_message", "get_message", "upload_message_attachments",
    "update_message_status", "add_inbound_message", "add_outbound_call",
    "get_message_recording", "get_message_transcription", "download_transcription",
    "cancel_scheduled_message", "cancel_scheduled_email", "live_chat_typing" >>

isConversationTool(toolName) == ArrIncludes(conversationToolNames, toolName)

blogToolNames == <<
    "create_blog_post", "update_blog_post", "get_blog_posts", "get_blog_sites",
    "get_blog_authors", "get_blog_categories", "check_url_slug" >>

\* The same test over a list that lacks its last name.
isBlogTool_missing(toolName) == ArrIncludes(SubSeq(blogToolNames, 1, 6), toolName)

isBlogTool(toolName) == ArrIncludes(blogToolNames, toolName)

opportunityToolNames == <<
    "search_opportunities", "get_pipelines", "get_opportunity", "create_opportunity",
    "update_opportunity_status", "delete_opportunity", "update_opportunity",
    "upsert_opportunity", "add_opportunity_followers", "remove_opportunity_followers" >>

isOpportunityTool(toolName) == ArrIncludes(opportunityToolNames, toolName)

calendarToolNames == <<
    "get_calendar_groups", "get_calendars", "create_calendar", "get_calendar",
    "update_calendar", "delete_calendar", "get_calendar_events", "get_free_slots",
    "create_appointment", "get_appointment", "update_appointment", "delete_appointment",
    "create_block_slot", "update_block_slot" >>

isCalendarTool(toolName) == ArrIncludes(calendarToolNames, toolName)

emailToolNames == <<
    "get_email_campaigns", "create_email_template", "get_email_templates",
    "update_email_template", "delete_email_template" >>

isEmailTool(toolName) == ArrIncludes(emailToolNames, toolName)

locationToolNames == <<
    "search_locations", "get_location", "create_location", "update_location",
    "delete_location", "get_location_tags", "create_location_tag", "get_location_tag",
    "update_location_tag", "delete_location_tag", "search_location_tasks",
    "get_location_custom_fields", "create_location_custom_field",
    "get_location_custom_field", "update_location_custom_field",
    "delete_location_custom_field", "get_location_custom_values",
    "create_location_custom_value", "get_location_custom_value",
    "update_location_custom_value", "delete_location_custom_value",
    "get_location_templates", "delete_location_template", "get_timezones" >>

isLocationTool(toolName) == ArrIncludes(locationToolNames, toolName)

isEmailISVTool(toolName) == toolName = "verify_email"

socialMediaToolNames == <<
    "search_social_posts", "create_social_post", "get_social_post", "update_social_post",
    "delete_social_post", "bulk_delete_social_posts", "get_social_accounts",
    "delete_social_account", "upload_social_csv", "get_csv_upload_status",
    "set_csv_accounts", "get_social_categories", "get_social_category", "get_social_tags",
    "get_social_tags_by_ids", "start_social_oauth", "get_platform_accounts" >>

isSocialMediaTool(toolName) == ArrIncludes(socialMediaToolNames, toolName)

mediaToolNames == <<
    "get_media_files", "upload_media_file", "delete_media_file" >>

isMediaTool(toolName) == ArrIncludes(mediaToolNames, toolName)

objectToolNames == <<
    "get_all_objects", "create_object_schema", "get_object_schema", "update_object_schema",
    "create_object_record", "get_object_record", "update_object_record",
    "delete_object_record", "search_object_records" >>

isObjectTool(toolName) == ArrIncludes(objectToolNames, toolName)

associationToolNames == <<
    "ghl_get_all_associations", "ghl_create_association", "ghl_get_association_by_id",
    "ghl_update_association", "ghl_delete_association", "ghl_get_association_by_key",
    "ghl_get_association_by_object_key", "ghl_create_relation",
    "ghl_get_relations_by_record", "ghl_delete_relation" >>

isAssociationTool(toolName) == ArrIncludes(associationToolNames, toolName)

customFieldV2ToolNames == <<
    "ghl_get_custom_field_by_id", "ghl_create_custom_field", "ghl_update_custom_field",
    "ghl_delete_custom_field", "ghl_get_custom_fields_by_object_key",
    "ghl_create_custom_field_folder", "ghl_update_custom_field_folder",
    "ghl_delete_custom_field_folder" >>

isCustomFieldV2Tool(toolName) == ArrIncludes(customFieldV2ToolNames, toolName)

isWorkflowTool(toolName) == toolName = "ghl_get_workflows"

surveyToolNames == <<
    "ghl_get_surveys", "ghl_get_survey_submissions" >>

isSurveyTool(toolName) == ArrIncludes(surveyToolNames, toolName)

storeToolNames == <<
    "ghl_create_shipping_zone", "ghl_list_shipping_zones", "ghl_get_shipping_zone",
    "ghl_update_shipping_zone", "ghl_delete_shipping_zone",
    "ghl_get_available_shipping_rates", "ghl_create_shipping_rate",
    "ghl_list_shipping_rates", "ghl_get_shipping_rate", "ghl_update_shipping_rate",
    "ghl_delete_shipping_rate", "ghl_create_shipping_carrier", "ghl_list_shipping_carriers",
    "ghl_get_shipping_carrier", "ghl_update_shipping_carrier",
    "ghl_delete_shipping_carrier", "ghl_create_store_setting", "ghl_get_store_setting" >>

isStoreTool(toolName) == ArrIncludes(storeToolNames, toolName)

productsToolNames == <<
    "ghl_create_product", "ghl_list_products", "ghl_get_product", "ghl_update_product",
    "ghl_delete_product", "ghl_create_price", "ghl_list_prices", "ghl_list_inventory",
    "ghl_create_product_collection", "ghl_list_product_collections" >>

isProductsTool(toolName) == ArrIncludes(productsToolNames, toolName)

paymentsToolNames == <<
    "create_whitelabel_integration_provider", "list_whitelabel_integration_providers",
    "list_orders", "get_order_by_id", "create_order_fulfillment", "list_order_fulfillments",
    "list_transactions", "get_transaction_by_id", "list_subscriptions",
    "get_subscription_by_id", "list_coupons", "create_coupon", "update_coupon",
    "delete_coupon", "get_coupon", "create_custom_provider_integration",
    "delete_custom_provider_integration", "get_custom_provider_config",
    "create_custom_provider_config", "disconnect_custom_provider_config" >>

isPaymentsTool(toolName) == ArrIncludes(paymentsToolNames, toolName)

invoicesToolNames == <<
    "create_invoice_template", "list_invoice_templates", "get_invoice_template",
    "update_invoice_template", "delete_invoice_template",
    "update_invoice_template_late_fees", "update_invoice_template_payment_methods",
    "create_invoice_schedule", "list_invoice_schedules", "get_invoice_schedule",
    "update_invoice_schedule", "delete_invoice_schedule", "schedule_invoice_schedule",
    "auto_payment_invoice_schedule", "cancel_invoice_schedule", "create_invoice",
    "list_invoices", "get_invoice", "update_invoice", "delete_invoice", "void_invoice",
    "send_invoice", "record_invoice_payment", "generate_invoice_number", "text2pay_invoice",
    "update_invoice_last_visited", "create_estimate", "list_estimates", "update_estimate",
    "delete_estimate", "send_estimate", "create_invoice_from_estimate",
    "generate_estimate_number", "update_estimate_last_visited", "list_estimate_templates",
    "create_estimate_template", "update_estimate_template", "delete_estimate_template",
    "preview_estimate_template" >>

isInvoicesTool(toolName) == ArrIncludes(invoicesToolNames, toolName)

\* ---- src/src/server.ts: per-group membership predicates (GHLMCPServer) ----
stdio_isContactTool(name) ==
    ArrIncludes(<<
        "create_contact", "search_contacts", "get_contact", "update_contact",
        "add_contact_tags", "remove_contact_tags", "delete_contact", "get_contact_tasks",
        "create_contact_task", "get_contact_task", "update_contact_task", "delete_contact_task",
        "update_task_completion", "get_contact_notes", "create_contact_note",
        "get_contact_note", "update_contact_note", "delete_contact_note", "upsert_contact",
        "get_duplicate_contact", "get_contacts_by_business", "get_contact_appointments",
        "bulk_update_contact_tags", "bulk_update_contact_business", "add_contact_followers",
        "remove_contact_followers", "add_contact_to_campaign", "remove_contact_from_campaign",
        "remove_contact_from_all_campaigns", "add_contact_to_workflow",
        "remove_contact_from_workflow" >>, name)

stdio_isConversationTool(name) ==
    ArrIncludes(<<
        "send_sms", "send_email", "search_conversations", "get_conversation",
        "create_conversation", "update_conversation", "delete_conversation",
        "get_recent_messages", "get_email_message", "get_message", "upload_message_attachments",
        "update_message_status", "add_inbound_message", "add_outbound_call",
        "get_message_recording", "get_message_transcription", "download_transcription",
        "cancel_scheduled_message", "cancel_scheduled_email", "live_chat_typing" >>, name)

stdio_isBlogTool(name) ==
    ArrIncludes(<<
        "create_blog_post", "update_blog_post", "get_blog_posts", "get_blog_sites",
        "get_blog_authors", "get_blog_categories", "check_url_slug" >>, name)

stdio_isOpportunityTool(name) ==
    ArrIncludes(<<
        "search_opportunities", "get_pipelines", "get_opportunity", "create_opportunity",
        "update_opportunity_status", "delete_opportunity", "update_opportunity",
        "upsert_opportunity", "add_opportunity_followers", "remove_opportunity_followers" >>, name)

stdio_isCalendarTool(name) ==
    ArrIncludes(<<
        "get_calendar_groups", "get_calendars", "create_calendar", "get_calendar",
        "update_calendar", "delete_calendar", "get_calendar_events", "get_free_slots",
        "create_appointment", "get_appointment", "update_appointment", "delete_appointment",
        "create_block_slot", "update_block_slot" >>, name)

stdio_isEmailTool(name) ==
    ArrIncludes(<<
        "get_email_campaigns", "create_email_template", "get_email_templates",
        "update_email_template", "delete_email_template" >>, name)

stdio_isLocationTool(name) ==
    ArrIncludes(<<
        "search_locations", "get_location", "create_location", "update_location",
        "delete_location", "get_location_tags", "create_location_tag", "get_location_tag",
        "update_location_tag", "delete_location_tag", "search_location_tasks",
        "get_location_custom_fields", "create_location_custom_field",
        "get_location_custom_field", "update_location_custom_field",
        "delete_location_custom_field", "get_location_custom_values",
        "create_location_custom_value", "get_location_custom_value",
        "update_location_custom_value", "delete_location_custom_value",
        "get_location_templates", "delete_location_template", "get_timezones" >>, name)

stdio_isEmailISVTool(name) == name = "verify_email"

stdio_isSocialMediaTool(name) ==
    ArrIncludes(<<
        "search_social_posts", "create_social_post", "get_social_post", "update_social_post",
        "delete_social_post", "bulk_delete_social_posts", "get_social_accounts",
        "delete_social_account", "upload_social_csv", "get_csv_upload_status",
        "set_csv_accounts", "get_social_categories", "get_social_category", "get_social_tags",
        "get_social_tags_by_ids", "start_social_oauth", "get_platform_accounts" >>, name)

stdio_isMediaTool(name) ==
    ArrIncludes(<<
        "get_media_files", "upload_media_file", "delete_media_file" >>, name)

stdio_isObjectTool(name) ==
    ArrIncludes(<<
        "get_all_objects", "create_object_schema", "get_object_schema", "update_object_schema",
        "create_object_record", "get_object_record", "update_object_record",
        "delete_object_record", "search_object_records" >>, name)

stdio_isAssociationTool(name) ==
    ArrIncludes(<<
        "ghl_get_all_associations", "ghl_create_association", "ghl_get_association_by_id",
        "ghl_update_association", "ghl_delete_association", "ghl_get_association_by_key",
        "ghl_get_association_by_object_key", "ghl_create_relation",
        "ghl_get_relations_by_record", "ghl_delete_relation" >>, name)

stdio_isCustomFieldV2Tool(name) ==
    ArrIncludes(<<
        "ghl_get_custom_field_by_id", "ghl_create_custom_field", "ghl_update_custom_field",
        "ghl_delete_custom_field", "ghl_get_custom_fields_by_object_key",
        "ghl_create_custom_field_folder", "ghl_update_custom_field_folder",
        "ghl_delete_custom_field_folder" >>, name)

stdio_isWorkflowTool(name) == name = "ghl_get_workflows"

stdio_isSurveyTool(name) ==
    ArrIncludes(<<
        "ghl_get_surveys", "ghl_get_survey_submissions" >>, name)

stdio_isStoreTool(name) ==
    ArrIncludes(<<
        "ghl_create_shipping_zone", "ghl_list_shipping_zones", "ghl_get_shipping_zone",
        "ghl_update_shipping_zone", "ghl_delete_shipping_zone",
        "ghl_get_available_shipping_rates", "ghl_create_shipping_rate",
        "ghl_list_shipping_rates", "ghl_get_shipping_rate", "ghl_update_shipping_rate",
        "ghl_delete_shipping_rate", "ghl_create_shipping_carrier", "ghl_list_shipping_carriers",
        "ghl_get_shipping_carrier", "ghl_update_shipping_carrier",
        "ghl_delete_shipping_carrier", "ghl_create_store_setting", "ghl_get_store_setting" >>, name)

stdio_isProductsTool(name) ==
    ArrIncludes(<<
        "ghl_create_product", "ghl_list_products", "ghl_get_product", "ghl_update_product",
        "ghl_delete_product", "ghl_create_price", "ghl_list_prices", "ghl_list_inventory",
        "ghl_create_product_collection", "ghl_list_product_collections" >>, name)

stdio_isPaymentsTool(name) ==
    ArrIncludes(<<
        "create_whitelabel_integration_provider", "list_whitelabel_integration_providers",
        "list_orders", "get_order_by_id", "create_order_fulfillment", "list_order_fulfillments",
        "list_transactions", "get_transaction_by_id", "list_subscriptions",
        "get_subscription_by_id", "list_coupons", "create_coupon", "update_coupon",
        "delete_coupon", "get_coupon", "create_custom_provider_integration",
        "delete_custom_provider_integration", "get_custom_provider_config",
        "create_custom_provider_config", "disconnect_custom_provider_config" >>, name)

stdio_isInvoicesTool(name) ==
    ArrIncludes(<<
        "create_invoice_template", "list_invoice_templates", "get_invoice_template",
        "update_invoice_template", "delete_invoice_template",
        "update_invoice_template_late_fees", "update_invoice_template_payment_methods",
        "create_invoice_schedule", "list_invoice_schedules", "get_invoice_schedule",
        "update_invoice_schedule", "delete_invoice_schedule", "schedule_invoice_schedule",
        "auto_payment_invoice_schedule", "cancel_invoice_schedule", "create_invoice",
        "list_invoices", "get_invoice", "update_invoice", "delete_invoice", "void_invoice",
        "send_invoice", "record_invoice_payment", "generate_invoice_number", "text2pay_invoice",
        "update_invoice_last_visited", "create_estimate", "list_estimates", "update_estimate",
        "delete_estimate", "send_estimate", "create_invoice_from_estimate",
        "generate_estimate_number", "update_estimate_last_visited", "list_estimate_templates",
        "create_estimate_template", "update_estimate_template", "delete_estimate_template",
        "preview_estimate_template" >>, name)
\* The 19 http predicates by group, in the order the routing chain tests them.
isGroupTool(g, n) ==
    CASE g = "contactTools" -> isContactTool(n)
      [] g = "conversationTools" -> isConversationTool(n)
      [] g = "blogTools" -> isBlogTool(n)
      [] g = "opportunityTools" -> isOpportunityTool(n)
      [] g = "calendarTools" -> isCalendarTool(n)
      [] g = "emailTools" -> isEmailTool(n)
      [] g = "locationTools" -> isLocationTool(n)
      [] g = "emailISVTools" -> isEmailISVTool(n)
      [] g = "socialMediaTools" -> isSocialMediaTool(n)
      [] g = "mediaTools" -> isMediaTool(n)
      [] g = "objectTools" -> isObjectTool(n)
      [] g = "associationTools" -> isAssociationTool(n)
      [] g = "customFieldV2Tools" -> isCustomFieldV2Tool(n)
      [] g = "workflowTools" -> isWorkflowTool(n)
      [] g = "surveyTools" -> isSurveyTool(n)
      [] g = "storeTools" -> isStoreTool(n)
      [] g = "productsTools" -> isProductsTool(n)
      [] g = "paymentsTools" -> isPaymentsTool(n)
      [] g = "invoicesTools" -> isInvoicesTool(n)

stdio_isGroupTool(g, n) ==
    CASE g = "contactTools" -> stdio_isContactTool(n)
      [] g = "conversationTools" -> stdio_isConversationTool(n)
      [] g = "blogTools" -> stdio_isBlogTool(n)
      [] g = "opportunityTools" -> stdio_isOpportunityTool(n)
      [] g = "calendarTools" -> stdio_isCalendarTool(n)
      [] g = "emailTools" -> stdio_isEmailTool(n)
      [] g = "locationTools" -> stdio_isLocationTool(n)
      [] g = "emailISVTools" -> stdio_isEmailISVTool(n)
      [] g = "socialMediaTools" -> stdio_isSocialMediaTool(n)
      [] g = "mediaTools" -> stdio_isMediaTool(n)
      [] g = "objectTools" -> stdio_isObjectTool(n)
      [] g = "associationTools" -> stdio_isAssociationTool(n)
      [] g = "customFieldV2Tools" -> stdio_isCustomFieldV2Tool(n)
      [] g = "workflowTools" -> stdio_isWorkflowTool(n)
      [] g = "surveyTools" -> stdio_isSurveyTool(n)
      [] g = "storeTools" -> stdio_isStoreTool(n)
      [] g = "productsTools" -> stdio_isProductsTool(n)
      [] g = "paymentsTools" -> stdio_isPaymentsTool(n)
      [] g = "invoicesTools" -> stdio_isInvoicesTool(n)

\* ---- the CallTool handlers ----

\* request.params.arguments when the caller sends none
Undefined == [t |-> "undefined"]

EmptyObject == JObj(<<>>)

\* a || b
JsOr(a, b) ==
    IF a.t \in {"undefined", "null"} \/ a = JBool(FALSE) \/ a = JNum(0) \/ a = JStr("")
    THEN b ELSE a

\* A thrown value: an Error (class "Error"), an McpError, or a string that is
\* thrown as it is (class "string"); text is its message, or the string.
NewError(message) == [class |-> "Error", code |-> "none", text |-> message]
McpError(code, message) == [class |-> "McpError", code |-> code, text |-> message]
ThrownString(s) == [class |-> "string", code |-> "none", text |-> s]

\* error instanceof Error
instanceofError(error) == error.class \in {"Error", "McpError"}

\* `${error}`
ErrorToString(error) ==
    IF instanceofError(error)
    THEN (IF error.text = "" THEN "Error" ELSE "Error: " \o error.text)
    ELSE error.text

\* What a step of the routing chain does: awaits a group's execute entry
\* point, or throws.
Execute(group, method, name, args) ==
    [kind |-> "call", group |-> group, method |-> method, name |-> name, args |-> args]
ThrowNow(error) == [kind |-> "throw", error |-> error]

\* What leaves a handler.
NoOutcome == [kind |-> "none"]
Return(content) == [kind |-> "return", content |-> content]
Throw(error) == [kind |-> "throw", error |-> error]

\* http-server.ts: `args || {}`, as written in each branch of the chain.
ArgsOrEmpty_raw(args) == args

ArgsOrEmpty(args) == JsOr(args, EmptyObject)

\* http-server.ts: the else branch, with a message that leaves the name out.
UnknownTool_unnamed(name) == ThrowNow(NewError("Unknown tool"))

\* http-server.ts: the else branch of the chain, throw new Error(`Unknown tool: ${name}`).
UnknownTool(name) == ThrowNow(NewError("Unknown tool: " \o name))

\* server.ts: `args || {}` and the else branch of the chain.
stdio_ArgsOrEmpty(args) == JsOr(args, EmptyObject)

stdio_UnknownTool(name) == ThrowNow(NewError("Unknown tool: " \o name))

\* http-server.ts, the routing chain of the CallTool handler.
HttpRoute(name, args) ==
    IF isContactTool(name) THEN
        Execute("contactTools", "executeTool", name, ArgsOrEmpty(args))
    ELSE IF isConversationTool(name) THEN
        Execute("conversationTools", "executeTool", name, ArgsOrEmpty(args))
    ELSE IF isBlogTool(name) THEN
        Execute("blogTools", "executeTool", name, ArgsOrEmpty(args))
    ELSE IF isOpportunityTool(name) THEN
        Execute("opportunityTools", "executeTool", name, ArgsOrEmpty(args))
    ELSE IF isCalendarTool(name) THEN
        Execute("calendarTools", "executeTool", name, ArgsOrEmpty(args))
    ELSE IF isEmailTool(name) THEN
        Execute("emailTools", "executeTool", name, ArgsOrEmpty(args))
    ELSE IF isLocationTool(name) THEN
        Execute("locationTools", "executeTool", name, ArgsOrEmpty(args))
    ELSE IF isEmailISVTool(name) THEN
        Execute("emailISVTools", "executeTool", name, ArgsOrEmpty(args))
    ELSE IF isSocialMediaTool(name) THEN
        Execute("socialMediaTools", "executeTool", name, ArgsOrEmpty(args))
    ELSE IF isMediaTool(name) THEN
        Execute("mediaTools", "executeTool", name, ArgsOrEmpty(args))
    ELSE IF isObjectTool(name) THEN
        Execute("objectTools", "executeTool", name, ArgsOrEmpty(args))
    ELSE IF isAssociationTool(name) THEN
        Execute("associationTools", "executeAssociationTool", name, ArgsOrEmpty(args))
    ELSE IF isCustomFieldV2Tool(name) THEN
        Execute("customFieldV2Tools", "executeCustomFieldV2Tool", name, ArgsOrEmpty(args))
    ELSE IF isWorkflowTool(name) THEN
        Execute("workflowTools", "executeWorkflowTool", name, ArgsOrEmpty(args))
    ELSE IF isSurveyTool(name) THEN
        Execute("surveyTools", "executeSurveyTool", name, ArgsOrEmpty(args))
    ELSE IF isStoreTool(name) THEN
        Execute("storeTools", "executeStoreTool", name, ArgsOrEmpty(args))
    ELSE IF isProductsTool(name) THEN
        Execute("productsTools", "executeProductsTool", name, ArgsOrEmpty(args))
    ELSE IF isPaymentsTool(name) THEN
        Execute("paymentsTools", "handleToolCall", name, ArgsOrEmpty(args))
    ELSE IF isInvoicesTool(name) THEN
        Execute("invoicesTools", "handleToolCall", name, ArgsOrEmpty(args))
    ELSE UnknownTool(name)


\* server.ts, the routing chain of the CallTool handler.
StdioRoute(name, args) ==
    IF stdio_isContactTool(name) THEN
        Execute("contactTools", "executeTool", name, stdio_ArgsOrEmpty(args))
    ELSE IF stdio_isConversationTool(name) THEN
        Execute("conversationTools", "executeTool", name, stdio_ArgsOrEmpty(args))
    ELSE IF stdio_isBlogTool(name) THEN
        Execute("blogTools", "executeTool", name, stdio_ArgsOrEmpty(args))
    ELSE IF stdio_isOpportunityTool(name) THEN
        Execute("opportunityTools", "executeTool", name, stdio_ArgsOrEmpty(args))
    ELSE IF stdio_isCalendarTool(name) THEN
        Execute("calendarTools", "executeTool", name, stdio_ArgsOrEmpty(args))
    ELSE IF stdio_isEmailTool(name) THEN
        Execute("emailTools", "executeTool", name, stdio_ArgsOrEmpty(args))
    ELSE IF stdio_isLocationTool(name) THEN
        Execute("locationTools", "executeTool", name, stdio_ArgsOrEmpty(args))
    ELSE IF stdio_isEmailISVTool(name) THEN
        Execute("emailISVTools", "executeTool", name, stdio_ArgsOrEmpty(args))
    ELSE IF stdio_isSocialMediaTool(name) THEN
        Execute("socialMediaTools", "executeTool", name, stdio_ArgsOrEmpty(args))
    ELSE IF stdio_isMediaTool(name) THEN
        Execute("mediaTools", "executeTool", name, stdio_ArgsOrEmpty(args))
    ELSE IF stdio_isObjectTool(name) THEN
        Execute("objectTools", "executeTool", name, stdio_ArgsOrEmpty(args))
    ELSE IF stdio_isAssociationTool(name) THEN
        Execute("associationTools", "executeAssociationTool", name, stdio_ArgsOrEmpty(args))
    ELSE IF stdio_isCustomFieldV2Tool(name) THEN
        Execute("customFieldV2Tools", "executeCustomFieldV2Tool", name, stdio_ArgsOrEmpty(args))
    ELSE IF stdio_isWorkflowTool(name) THEN
        Execute("workflowTools", "executeWorkflowTool", name, stdio_ArgsOrEmpty(args))
    ELSE IF stdio_isSurveyTool(name) THEN
        Execute("surveyTools", "executeSurveyTool", name, stdio_ArgsOrEmpty(args))
    ELSE IF stdio_isStoreTool(name) THEN
        Execute("storeTools", "executeStoreTool", name, stdio_ArgsOrEmpty(args))
    ELSE IF stdio_isProductsTool(name) THEN
        Execute("productsTools", "executeProductsTool", name, stdio_ArgsOrEmpty(args))
    ELSE IF stdio_isPaymentsTool(name) THEN
        Execute("paymentsTools", "handleToolCall", name, stdio_ArgsOrEmpty(args))
    ELSE IF stdio_isInvoicesTool(name) THEN
        Execute("invoicesTools", "handleToolCall", name, stdio_ArgsOrEmpty(args))
    ELSE stdio_UnknownTool(name)

\* http-server.ts: the envelope, with the payload under a "result" key.
HttpEnvelope_wrapped(result) ==
    <<[type |-> "text", text |-> JSONstringify(JObj(<<Member("result", result)>>))]>>

\* http-server.ts: content of the value the handler returns.
HttpEnvelope(result) == <<[type |-> "text", text |-> JSONstringify(result)]>>

\* server.ts: content of the value the handler returns.
StdioEnvelope(result) == <<[type |-> "text", text |-> JSONstringify(result)]>>

\* http-server.ts: the catch clause, with every failure made an InternalError.
HttpCatch_alwaysInternal(error) ==
    McpError("InternalError", "Tool execution failed: " \o ErrorToString(error))

\* http-server.ts: the catch clause of the CallTool handler.
HttpCatch(error) ==
    LET errorCode == IF instanceofError(error) /\ StrIncludes(error.text, "404")
                     THEN "InvalidRequest"
                     ELSE "InternalError"
    IN McpError(errorCode, "Tool execution failed: " \o ErrorToString(error))

\* ---- the catalog ----

ToolDefinition(name) == [name |-> name]

\* The names a group owns according to the http routing predicates.
OwnedNames(g) ==
    CASE g = "contactTools" -> contactToolNames
      [] g = "conversationTools" -> conversationToolNames
      [] g = "blogTools" -> blogToolNames
      [] g = "opportunityTools" -> opportunityToolNames
      [] g = "calendarTools" -> calendarToolNames
      [] g = "emailTools" -> emailToolNames
      [] g = "locationTools" -> locationToolNames
      [] g = "emailISVTools" -> <<"verify_email">>
      [] g = "socialMediaTools" -> socialMediaToolNames
      [] g = "mediaTools" -> mediaToolNames
      [] g = "objectTools" -> objectToolNames
      [] g = "associationTools" -> associationToolNames
      [] g = "customFieldV2Tools" -> customFieldV2ToolNames
      [] g = "workflowTools" -> <<"ghl_get_workflows">>
      [] g = "surveyTools" -> surveyToolNames
      [] g = "storeTools" -> storeToolNames
      [] g = "productsTools" -> productsToolNames
      [] g = "paymentsTools" -> paymentsToolNames
      [] g = "invoicesTools" -> invoicesToolNames

\* Names a group may publish besides those of its name list.
ExtraNames == <<"x">>

\* The definitions a group publishes for its own tools: one per name the
\* group owns, in the order of its name list.
PublishedDefinitions(g) ==
    [i \in 1..Len(OwnedNames(g)) |-> ToolDefinition(OwnedNames(g)[i])]

\* What a group's getToolDefinitions / getTools returns.
getToolDefinitions(g) ==
    LET extra == SelectSeq(ExtraNames, LAMBDA n : [group |-> g, name |-> n] \in extraDefs)
    IN PublishedDefinitions(g) \o [i \in 1..Len(extra) |-> ToolDefinition(extra[i])]

\* http-server.ts getAllTools
getAllTools ==
    getToolDefinitions("contactTools")
    \o getToolDefinitions("conversationTools")
    \o getToolDefinitions("blogTools")
    \o getToolDefinitions("opportunityTools")
    \o getToolDefinitions("calendarTools")
    \o getToolDefinitions("emailTools")
    \o getToolDefinitions("locationTools")
    \o getToolDefinitions("emailISVTools")
    \o getToolDefinitions("socialMediaTools")
    \o getToolDefinitions("mediaTools")
    \o getToolDefinitions("objectTools")
    \o getToolDefinitions("associationTools")
    \o getToolDefinitions("customFieldV2Tools")
    \o getToolDefinitions("workflowTools")
    \o getToolDefinitions("surveyTools")
    \o getToolDefinitions("storeTools")
    \o getToolDefinitions("productsTools")
    \o getToolDefinitions("paymentsTools")
    \o getToolDefinitions("invoicesTools")

\* A concatenation that puts the invoices group's definitions first.
stdio_getAllTools_invoicesFirst ==
    getToolDefinitions("invoicesTools")
    \o SubSeq(getAllTools, 1, Len(getAllTools) - Len(getToolDefinitions("invoicesTools")))

\* server.ts getAllTools
stdio_getAllTools ==
    getToolDefinitions("contactTools")
    \o getToolDefinitions("conversationTools")
    \o getToolDefinitions("blogTools")
    \o getToolDefinitions("opportunityTools")
    \o getToolDefinitions("calendarTools")
    \o getToolDefinitions("emailTools")
    \o getToolDefinitions("locationTools")
    \o getToolDefinitions("emailISVTools")
    \o getToolDefinitions("socialMediaTools")
    \o getToolDefinitions("mediaTools")
    \o getToolDefinitions("objectTools")
    \o getToolDefinitions("associationTools")
    \o getToolDefinitions("customFieldV2Tools")
    \o getToolDefinitions("workflowTools")
    \o getToolDefinitions("surveyTools")
    \o getToolDefinitions("storeTools")
    \o getToolDefinitions("productsTools")
    \o getToolDefinitions("paymentsTools")
    \o getToolDefinitions("invoicesTools")

AllTools(t) == IF t = "http" THEN getAllTools ELSE stdio_getAllTools

NamesOf(defs) == {defs[i].name : i \in 1..Len(defs)}

\* ---- inputs ----

\* Names that no group lists.
UnknownNames == {"delete_contact_permanently", "lookup_http_404", "CREATE_CONTACT",
                 "ghl_get_workflow"}

ListedNames == UNION {NamesOf(PublishedDefinitions(g)) : g \in GroupSet}

RequestNames == ListedNames \cup UnknownNames

\* The caller's arguments: none, an empty mapping, a mapping with a field.
ArgValues == {Undefined, EmptyObject, JObj(<<Member("firstName", JStr("A"))>>)}

\* JSON values a group returns.
ReturnValues ==
    {JNull, JBool(FALSE), JStr("a\"b\\c"), JArr(<<>>), JObj(<<>>)}
    \cup {JNum(n) : n \in {-MaxNumber, 0, MaxNumber}}
    \cup {JArr(<<JNum(MaxNumber), JStr("x"), JArr(<<JNull>>)>>),
          JObj(<<Member("id", JStr("c1")),
                 Member("tags", JArr(<<JStr("vip")>>)),
                 Member("meta", JObj(<<Member("total", JNum(-MaxNumber))>>))>>)}

\* Values a group throws.
ThrownValues ==
    {NewError("GHL API Error (404): Not Found"), NewError("Contact not found"),
     NewError("Request timed out"), NewError(""),
     ThrownString("404"), ThrownString("socket hang up")}

Behaviours ==
    {[kind |-> "return", value |-> v, error |-> NewError("")] : v \in ReturnValues}
    \cup {[kind |-> "throw", value |-> JNull, error |-> e] : e \in ThrownValues}

NoRequest == [name |-> "", args |-> Undefined]
NoBehaviour == [kind |-> "none", value |-> JNull, error |-> NewError("")]
NoCatalog == <<>>
\* categories[c] keeps the number of calls (0, 1, 2 for more) of classifier c
\* on tools, and the outputs of its first and of its latest call.
NotClassified == [calls |-> 0, first |-> <<>>, last |-> <<>>]

\* ---- the invocation state machine ----

NoExtraDefs == {}

\* No list request has been answered.
NoMeta == [answered |-> FALSE]

\* No describe-one request has been made.
NoDescription == [asked |-> "", route |-> <<>>, handler |-> <<>>]

\* Nothing has arrived on the duplex pipe.
EmptyPipe == [arrived |-> <<>>, awaiting |-> {}, sent |-> <<>>]

\* The clients of the HTTP adapter.
Clients == {"c1", "c2", "c3"}

\* No client has opened a push channel; the server has no transport.
NoChannels ==
    [channel |-> [c \in Clients |-> "none"], transport |-> "none",
     posted |-> [c \in Clients |-> 0], handled |-> [c \in Clients |-> 0],
     answer |-> [c \in Clients |-> "none"]]

\* process.env as the start-up reads it: a variable is absent or a string.
Env(key, location, baseUrl) ==
    [GHL_API_KEY |-> key, GHL_LOCATION_ID |-> location, GHL_BASE_URL |-> baseUrl]

GoodEnv == Env(JStr("key"), JStr("loc"), Undefined)

\* Both processes have entered main and nothing more.
AtMain(env) ==
    [env |-> env, log |-> [t \in Transports |-> <<>>], exit |-> [t \in Transports |-> "none"]]

\* Both servers are constructed.
Constructed ==
    [AtMain(GoodEnv) EXCEPT !.log = [t \in Transports |-> <<"constructed">>]]

\* Both servers are started.
Running ==
    [AtMain(GoodEnv) EXCEPT !.log = [stdio |-> <<"constructed", "listening">>,
                                     http |-> <<"constructed", "tested", "listening">>]]

\* The parts of the state an operation outside discovery, the pipe and the
\* push channels never touches.
Quiet ==
    /\ listMeta = [t \in Transports |-> NoMeta]
    /\ description = NoDescription
    /\ pipe = EmptyPipe
    /\ sse = NoChannels

Idle ==
    /\ request = NoRequest
    /\ behaviour = NoBehaviour
    /\ pc = [t \in Transports |-> "idle"]
    /\ branch = [t \in Transports |-> "none"]
    /\ calls = [t \in Transports |-> <<>>]
    /\ outcome = [t \in Transports |-> NoOutcome]

Init ==
    /\ boot = Running
    /\ Idle
    /\ extraDefs = NoExtraDefs
    /\ phase = [t \in Transports |-> "listening"]
    /\ served = [t \in Transports |-> NoCatalog]
    /\ tools = <<>>
    /\ categories = [c \in {"http", "describe"} |-> NotClassified]
    /\ Quiet

\* A caller sends the same tools/call request to both adapters; the owning
\* group will behave the same way for both.
NewRequest ==
    /\ \A t \in Transports : pc[t] = "idle"
    /\ \E n \in RequestNames, a \in ArgValues : request' = [name |-> n, args |-> a]
    /\ behaviour' \in Behaviours
    /\ pc' = [t \in Transports |-> "received"]
    /\ UNCHANGED <<branch, calls, outcome, extraDefs, phase, served, tools, categories,
                   listMeta, description, pipe, sse, boot>>

\* http-server.ts: the CallTool handler up to its await (or its throw).
HttpCallTool ==
    /\ pc["http"] = "received"
    /\ LET step == HttpRoute(request.name, request.args)
       IN IF step.kind = "call"
          THEN /\ calls' = [calls EXCEPT !["http"] = Append(@, step)]
               /\ branch' = [branch EXCEPT !["http"] = step.group]
               /\ pc' = [pc EXCEPT !["http"] = "awaiting"]
               /\ UNCHANGED outcome
          ELSE /\ branch' = [branch EXCEPT !["http"] = "unknown"]
               /\ outcome' = [outcome EXCEPT !["http"] = Throw(HttpCatch(step.error))]
               /\ pc' = [pc EXCEPT !["http"] = "done"]
               /\ UNCHANGED calls
    /\ UNCHANGED <<request, behaviour, extraDefs, phase, served, tools, categories,
                   listMeta, description, pipe, sse, boot>>

\* http-server.ts: the handler after the group's execute settled.
HttpExecuteSettles ==
    /\ pc["http"] = "awaiting"
    /\ outcome' = [outcome EXCEPT !["http"] =
                     IF behaviour.kind = "return"
                     THEN Return(HttpEnvelope(behaviour.value))
                     ELSE Throw(HttpCatch(behaviour.error))]
    /\ pc' = [pc EXCEPT !["http"] = "done"]
    /\ UNCHANGED <<request, behaviour, branch, calls, extraDefs, phase, served, tools,
                   categories,
                   listMeta, description, pipe, sse, boot>>

\* server.ts: the CallTool handler up to its await (or its throw).
StdioCallTool ==
    /\ pc["stdio"] = "received"
    /\ LET step == StdioRoute(request.name, request.args)
       IN IF step.kind = "call"
          THEN /\ calls' = [calls EXCEPT !["stdio"] = Append(@, step)]
               /\ branch' = [branch EXCEPT !["stdio"] = step.group]
               /\ pc' = [pc EXCEPT !["stdio"] = "awaiting"]
               /\ UNCHANGED outcome
          ELSE /\ branch' = [branch EXCEPT !["stdio"] = "unknown"]
               /\ outcome' = [outcome EXCEPT !["stdio"] = Throw(step.error)]
               /\ pc' = [pc EXCEPT !["stdio"] = "done"]
               /\ UNCHANGED calls
    /\ UNCHANGED <<request, behaviour, extraDefs, phase, served, tools, categories,
                   listMeta, description, pipe, sse, boot>>

\* server.ts: the handler after the group's execute settled; it has no catch.
StdioExecuteSettles ==
    /\ pc["stdio"] = "awaiting"
    /\ outcome' = [outcome EXCEPT !["stdio"] =
                     IF behaviour.kind = "return"
                     THEN Return(StdioEnvelope(behaviour.value))
                     ELSE Throw(behaviour.error)]
    /\ pc' = [pc EXCEPT !["stdio"] = "done"]
    /\ UNCHANGED <<request, behaviour, branch, calls, extraDefs, phase, served, tools,
                   categories,
                   listMeta, description, pipe, sse, boot>>

\* Both responses are on the wire; the invocation's state is discarded.
ResponseSent ==
    /\ \A t \in Transports : pc[t] = "done"
    /\ request' = NoRequest
    /\ behaviour' = NoBehaviour
    /\ pc' = [t \in Transports |-> "idle"]
    /\ branch' = [t \in Transports |-> "none"]
    /\ calls' = [t \in Transports |-> <<>>]
    /\ outcome' = [t \in Transports |-> NoOutcome]
    /\ UNCHANGED <<extraDefs, phase, served, tools, categories,
                   listMeta, description, pipe, sse, boot>>

Next ==
    \/ NewRequest
    \/ HttpCallTool
    \/ HttpExecuteSettles
    \/ StdioCallTool
    \/ StdioExecuteSettles
    \/ ResponseSent

Spec == Init /\ [][Next]_vars

\* ---- the category classifier ----

\* The keys of the categories record, in insertion order.
CategoryLabels ==
    <<"Contact Management", "Messaging & Communication", "Sales & Opportunities",
      "Calendar & Appointments", "Payments & Billing", "Marketing & Social Media",
      "Business Operations", "Custom Objects & Data", "Other">>

LabelSet == {CategoryLabels[i] : i \in 1..Len(CategoryLabels)}

EmptyCategories == [l \in LabelSet |-> <<>>]

\* categories[label].push(name)
Push(cats, label, name) == [cats EXCEPT ![label] = Append(@, name)]

\* A sort that leaves the array as it is.
ArraySort_asPushed(arr) == arr

\* Array.prototype.sort() without a comparator, on an array of strings: the
\* element at index i goes behind every element that is less in code-unit
\* order, and behind the equal ones that came before it.  The table of
\* positions is built once, as a tuple.
ArraySort(arr) ==
    LET n == Len(arr)
        behind == <<>> \o [i \in 1..n |->
                      Cardinality({j \in 1..n : \/ StrLess(arr[j], arr[i])
                                                \/ arr[j] = arr[i] /\ j < i})]
    IN [k \in 1..n |-> arr[CHOOSE i \in 1..n : behind[i] = k - 1]]

\* http-server.ts categorizeTools: the forEach body without its last else.
categorizeOne_noOther(cats, tool) ==
    LET toolName == toLowerCase(tool.name)
    IN IF StrIncludes(toolName, "contact") THEN Push(cats, "Contact Management", tool.name)
       ELSE cats

\* http-server.ts categorizeTools: the body of tools.forEach.
categorizeOne(cats, tool) ==
    LET toolName == toLowerCase(tool.name)
    IN IF StrIncludes(toolName, "contact") THEN
            Push(cats, "Contact Management", tool.name)
       ELSE IF \/ StrIncludes(toolName, "message") \/ StrIncludes(toolName, "sms")
               \/ StrIncludes(toolName, "email") \/ StrIncludes(toolName, "conversation") THEN
            Push(cats, "Messaging & Communication", tool.name)
       ELSE IF StrIncludes(toolName, "opportunity") \/ StrIncludes(toolName, "pipeline") THEN
            Push(cats, "Sales & Opportunities", tool.name)
       ELSE IF \/ StrIncludes(toolName, "calendar") \/ StrIncludes(toolName, "appointment")
               \/ StrIncludes(toolName, "event") THEN
            Push(cats, "Calendar & Appointments", tool.name)
       ELSE IF \/ StrIncludes(toolName, "payment") \/ StrIncludes(toolName, "invoice")
               \/ StrIncludes(toolName, "billing") \/ StrIncludes(toolName, "transaction") THEN
            Push(cats, "Payments & Billing", tool.name)
       ELSE IF \/ StrIncludes(toolName, "social") \/ StrIncludes(toolName, "blog")
               \/ StrIncludes(toolName, "media") \/ StrIncludes(toolName, "campaign") THEN
            Push(cats, "Marketing & Social Media", tool.name)
       ELSE IF \/ StrIncludes(toolName, "location") \/ StrIncludes(toolName, "workflow")
               \/ StrIncludes(toolName, "survey") \/ StrIncludes(toolName, "store") THEN
            Push(cats, "Business Operations", tool.name)
       ELSE IF \/ StrIncludes(toolName, "object") \/ StrIncludes(toolName, "custom")
               \/ StrIncludes(toolName, "field") \/ StrIncludes(toolName, "association") THEN
            Push(cats, "Custom Objects & Data", tool.name)
       ELSE Push(cats, "Other", tool.name)

\* tools.forEach over the body above: every tool's name is pushed, in array
\* order, onto the list of the one label the body selects for it (the body
\* reads nothing of categories).
categorizeEach(ts, cats) ==
    LET pushedTo == [i \in 1..Len(ts) |->
                        LET one == categorizeOne(EmptyCategories, ts[i])
                        IN {l \in LabelSet : one[l] # <<>>}]
        order == [i \in 1..Len(ts) |-> i]
    IN [l \in LabelSet |->
           LET at == SelectSeq(order, LAMBDA i : l \in pushedTo[i])
           IN cats[l] \o [k \in 1..Len(at) |-> ts[at[k]].name]]

\* The entries without the filter of empty member lists.
CategoryEntries_keepsEmpty(cats) ==
    [i \in 1..Len(CategoryLabels) |->
        [name |-> CategoryLabels[i], count |-> Len(cats[CategoryLabels[i]]),
         tools |-> ArraySort(cats[CategoryLabels[i]])]]

\* Object.entries(categories).filter(nonempty).map({name, count, tools.sort()})
CategoryEntries(cats) ==
    LET kept == SelectSeq(CategoryLabels, LAMBDA l : Len(cats[l]) > 0)
    IN [i \in 1..Len(kept) |->
           [name |-> kept[i], count |-> Len(cats[kept[i]]), tools |-> ArraySort(cats[kept[i]])]]

\* http-server.ts categorizeTools
categorizeTools(ts) == CategoryEntries(categorizeEach(ts, EmptyCategories))

\* The forEach body with the "custom" cue tested before every other rule.
describe_categorizeOne_customFirst(cats, tool) ==
    IF StrIncludes(toLowerCase(tool.name), "custom")
    THEN Push(cats, "Custom Objects & Data", tool.name)
    ELSE categorizeOne(cats, tool)

\* describe handler categorizeTools: the body of tools.forEach.
describe_categorizeOne(cats, tool) ==
    LET toolName == toLowerCase(tool.name)
    IN IF StrIncludes(toolName, "contact") THEN
            Push(cats, "Contact Management", tool.name)
       ELSE IF \/ StrIncludes(toolName, "message") \/ StrIncludes(toolName, "sms")
               \/ StrIncludes(toolName, "email") \/ StrIncludes(toolName, "conversation") THEN
            Push(cats, "Messaging & Communication", tool.name)
       ELSE IF StrIncludes(toolName, "opportunity") \/ StrIncludes(toolName, "pipeline") THEN
            Push(cats, "Sales & Opportunities", tool.name)
       ELSE IF \/ StrIncludes(toolName, "calendar") \/ StrIncludes(toolName, "appointment")
               \/ StrIncludes(toolName, "event") THEN
            Push(cats, "Calendar & Appointments", tool.name)
       ELSE IF \/ StrIncludes(toolName, "payment") \/ StrIncludes(toolName, "invoice")
               \/ StrIncludes(toolName, "billing") \/ StrIncludes(toolName, "transaction") THEN
            Push(cats, "Payments & Billing", tool.name)
       ELSE IF \/ StrIncludes(toolName, "social") \/ StrIncludes(toolName, "blog")
               \/ StrIncludes(toolName, "media") \/ StrIncludes(toolName, "campaign") THEN
            Push(cats, "Marketing & Social Media", tool.name)
       ELSE IF \/ StrIncludes(toolName, "location") \/ StrIncludes(toolName, "workflow")
               \/ StrIncludes(toolName, "survey") \/ StrIncludes(toolName, "store") THEN
            Push(cats, "Business Operations", tool.name)
       ELSE IF \/ StrIncludes(toolName, "object") \/ StrIncludes(toolName, "custom")
               \/ StrIncludes(toolName, "field") \/ StrIncludes(toolName, "association") THEN
            Push(cats, "Custom Objects & Data", tool.name)
       ELSE Push(cats, "Other", tool.name)

RECURSIVE describe_categorizeEach(_, _)
describe_categorizeEach(ts, cats) ==
    IF ts = <<>> THEN cats
    ELSE describe_categorizeEach(Tail(ts), describe_categorizeOne(cats, Head(ts)))

\* describe handler categorizeTools
describe_categorizeTools(ts) ==
    LET cats == describe_categorizeEach(ts, EmptyCategories)
        kept == SelectSeq(CategoryLabels, LAMBDA l : Len(cats[l]) > 0)
    IN [i \in 1..Len(kept) |->
           [name |-> kept[i], count |-> Len(cats[kept[i]]), tools |-> ArraySort(cats[kept[i]])]]

\* Names given to the classifier: one for each rule, a name with cues of two
\* rules, a name with upper-case letters, a name without a cue.
ClassifyPool ==
    {"create_contact", "send_sms", "get_pipelines", "get_calendar_events",
     "list_transactions", "get_blog_posts", "get_location_custom_fields",
     "ghl_get_custom_field_by_id", "search_opportunities", "Get_Contact"}

ClassifyInputs ==
    UNION {[1..k -> {ToolDefinition(n) : n \in ClassifyPool}] : k \in 0..MaxTools}

Classifiers == {"http", "describe"}

Classify(c, ts) == IF c = "http" THEN categorizeTools(ts) ELSE describe_categorizeTools(ts)

\* The array given to the classifier, with Array.prototype.sort() called on it.
ArgumentAfter_sorted(c, ts) ==
    LET names == ArraySort([i \in 1..Len(ts) |-> ts[i].name])
    IN [i \in 1..Len(ts) |-> ToolDefinition(names[i])]

\* The array given to classifier c, after the call.  The classifier reads it
\* with forEach and pushes names onto the member lists it created; the
\* `tools` it calls sort() on is the member list of an entry, which hides
\* the parameter of the same name.  Nothing is written to the parameter.
ArgumentAfter(c, ts) == ts

InitClassify ==
    /\ boot = Running
    /\ tools \in ClassifyInputs
    /\ categories = [c \in Classifiers |-> NotClassified]
    /\ Idle
    /\ extraDefs = NoExtraDefs
    /\ phase = [t \in Transports |-> "listening"]
    /\ served = [t \in Transports |-> NoCatalog]
    /\ Quiet

Categorize(c) ==
    /\ categories' = [categories EXCEPT ![c] =
                        IF @.calls = 0
                        THEN [calls |-> 1, first |-> Classify(c, tools), last |-> Classify(c, tools)]
                        ELSE [calls |-> 2, first |-> @.first, last |-> Classify(c, tools)]]
    /\ tools' = ArgumentAfter(c, tools)
    /\ UNCHANGED <<request, behaviour, pc, branch, calls, outcome, extraDefs, phase,
                   served, listMeta, description, pipe, sse, boot>>

HttpCategorize == Categorize("http")

DescribeCategorize == Categorize("describe")

NextClassify ==
    \/ HttpCategorize
    \/ DescribeCategorize

SpecClassify == InitClassify /\ [][NextClassify]_vars

\* ---- start-up and the list request ----

\* The groups that may publish an extra definition: the first two, one of
\* the middle, a group of one tool, and the last.
ExtraGroups ==
    {"contactTools", "conversationTools", "blogTools", "workflowTools", "invoicesTools"}

\* The sets of at most MaxExtra extra definitions.
ExtraPairs ==
    {[group |-> g, name |-> ExtraNames[i]] : g \in ExtraGroups, i \in 1..Len(ExtraNames)}

ExtraConfigs ==
    UNION {{{f[i] : i \in 1..k} : f \in [1..k -> ExtraPairs]} : k \in 0..MaxExtra}

InitCatalog ==
    /\ boot = Constructed
    /\ extraDefs \in ExtraConfigs
    /\ phase = [t \in Transports |-> "constructed"]
    /\ served = [t \in Transports |-> NoCatalog]
    /\ Idle
    /\ tools = <<>>
    /\ categories = [c \in {"http", "describe"} |-> NotClassified]
    /\ Quiet

\* http-server.ts start(): the backend connection test succeeded, listen.
HttpStart ==
    /\ phase["http"] = "constructed"
    /\ phase' = [phase EXCEPT !["http"] = "listening"]
    /\ boot' = [boot EXCEPT !.log["http"] = @ \o <<"tested", "listening">>]
    /\ UNCHANGED <<request, behaviour, pc, branch, calls, outcome, extraDefs, served,
                   tools, categories,
                   listMeta, description, pipe, sse>>

\* http-server.ts start(): the backend connection test failed, process.exit(1).
HttpStartFails ==
    /\ phase["http"] = "constructed"
    /\ phase' = [phase EXCEPT !["http"] = "exited"]
    /\ boot' = [boot EXCEPT !.log["http"] = Append(@, "test failed"),
                            !.exit["http"] = 1]
    /\ UNCHANGED <<request, behaviour, pc, branch, calls, outcome, extraDefs, served,
                   tools, categories,
                   listMeta, description, pipe, sse>>

\* server.ts start(): connect the pipe transport.
StdioStart ==
    /\ phase["stdio"] = "constructed"
    /\ phase' = [phase EXCEPT !["stdio"] = "listening"]
    /\ boot' = [boot EXCEPT !.log["stdio"] = Append(@, "listening")]
    /\ UNCHANGED <<request, behaviour, pc, branch, calls, outcome, extraDefs, served,
                   tools, categories,
                   listMeta, description, pipe, sse>>

\* http-server.ts ListTools handler: the _meta of its result.  Neither
\* getAllTools nor categorizeTools throws, so its catch is never entered.
HttpListMeta(allTools) ==
    [answered |-> TRUE,
     meta |-> [totalCount |-> Len(allTools),
               categories |-> categorizeTools(allTools),
               serverInfo |-> [name |-> "GoHighLevel MCP Server", version |-> "1.0.0"]]]

\* categories.map(c => ({ name: c.name, count: c.count }))
NameAndCount(entries) ==
    [i \in 1..Len(entries) |-> [name |-> entries[i].name, count |-> entries[i].count]]

\* http-server.ts GET /: the counts of its body.
RootRoute(allTools) ==
    [toolsCount |-> Len(allTools), categories |-> NameAndCount(categorizeTools(allTools))]

\* http-server.ts GET /health: the counts of its body.
HealthRoute(allTools) ==
    [toolsCount |-> Len(allTools), categories |-> NameAndCount(categorizeTools(allTools))]

\* http-server.ts GET /describe: the counts of its body.
DescribeRoute(allTools) ==
    [toolsCount |-> Len(allTools), categories |-> categorizeTools(allTools)]

\* http-server.ts GET /tools: the counts of its body.
ToolsRoute(allTools) ==
    [count |-> Len(allTools), categories |-> categorizeTools(allTools)]

\* server.ts ListTools handler: its result is { tools } and nothing else.
StdioListMeta(allTools) == [answered |-> TRUE, meta |-> Undefined]

\* The ListTools handler of adapter t: the tools and the _meta it returns.
ListTools(t) ==
    /\ phase[t] = "listening"
    /\ served' = [served EXCEPT ![t] = IF t = "http" THEN ArgumentAfter(t, AllTools(t))
                                       ELSE AllTools(t)]
    /\ listMeta' = [listMeta EXCEPT ![t] =
                       IF t = "http" THEN HttpListMeta(AllTools(t))
                       ELSE StdioListMeta(AllTools(t))]
    /\ UNCHANGED <<request, behaviour, pc, branch, calls, outcome, extraDefs, phase,
                   tools, categories, description, pipe, sse, boot>>

HttpListTools == ListTools("http")

StdioListTools == ListTools("stdio")

NextCatalog ==
    \/ HttpStart
    \/ HttpStartFails
    \/ StdioStart
    \/ HttpListTools
    \/ StdioListTools

SpecCatalog == InitCatalog /\ [][NextCatalog]_vars

\* ---- start-up of the two processes ----

\* !value
Falsy(value) == JsOr(value, Undefined) = Undefined

\* The GHLConfig both initializeGHLClient build from process.env.
GHLConfig(env) ==
    [accessToken |-> JsOr(env.GHL_API_KEY, JStr("")),
     baseUrl |-> JsOr(env.GHL_BASE_URL, JStr("https://services.leadconnectorhq.com")),
     version |-> JStr("2021-07-28"),
     locationId |-> JsOr(env.GHL_LOCATION_ID, JStr(""))]

\* http-server.ts initializeGHLClient without its test of the location id.
initializeGHLClient_keyOnly(env) ==
    IF Falsy(GHLConfig(env).accessToken)
    THEN Throw(NewError("GHL_API_KEY environment variable is required"))
    ELSE Return(GHLConfig(env))

\* http-server.ts initializeGHLClient
initializeGHLClient(env) ==
    LET config == GHLConfig(env)
    IN IF Falsy(config.accessToken)
       THEN Throw(NewError("GHL_API_KEY environment variable is required"))
       ELSE IF Falsy(config.locationId)
       THEN Throw(NewError("GHL_LOCATION_ID environment variable is required"))
       ELSE Return(config)

\* server.ts initializeGHLClient
stdio_initializeGHLClient(env) ==
    LET config == GHLConfig(env)
    IN IF Falsy(config.accessToken) \/ Falsy(config.locationId)
       THEN Throw(NewError("GHL_API_KEY and GHL_LOCATION_ID environment variables are required"))
       ELSE Return(config)

\* What process.env holds when the processes start.
StartEnvs ==
    {Env(key, location, baseUrl) :
        key \in {Undefined, JStr(""), JStr("key")},
        location \in {Undefined, JStr(""), JStr("loc")},
        baseUrl \in {Undefined, JStr("https://ghl.example")}}

InitStart ==
    /\ boot \in {AtMain(env) : env \in StartEnvs}
    /\ phase = [t \in Transports |-> "main"]
    /\ Idle
    /\ extraDefs = NoExtraDefs
    /\ served = [t \in Transports |-> NoCatalog]
    /\ tools = <<>>
    /\ categories = [c \in {"http", "describe"} |-> NotClassified]
    /\ Quiet

\* main() of adapter t up to the end of the constructor: the constructor
\* builds the client from process.env; when that throws, the catch of main
\* calls process.exit(1).
Construct(t) ==
    /\ phase[t] = "main"
    /\ LET client == IF t = "http" THEN initializeGHLClient(boot.env)
                     ELSE stdio_initializeGHLClient(boot.env)
       IN IF client.kind = "throw"
          THEN /\ phase' = [phase EXCEPT ![t] = "exited"]
               /\ boot' = [boot EXCEPT !.log[t] = Append(@, "fatal"), !.exit[t] = 1]
          ELSE /\ phase' = [phase EXCEPT ![t] = "constructed"]
               /\ boot' = [boot EXCEPT !.log[t] = Append(@, "constructed")]
    /\ UNCHANGED <<request, behaviour, pc, branch, calls, outcome, extraDefs, served,
                   tools, categories, listMeta, description, pipe, sse>>

HttpConstruct == Construct("http")

StdioConstruct == Construct("stdio")

\* setupGracefulShutdown: SIGINT or SIGTERM reaches a process, process.exit(0).
Shutdown(t) ==
    /\ phase[t] # "exited"
    /\ phase' = [phase EXCEPT ![t] = "exited"]
    /\ boot' = [boot EXCEPT !.log[t] = Append(@, "signal"), !.exit[t] = 0]
    /\ UNCHANGED <<request, behaviour, pc, branch, calls, outcome, extraDefs, served,
                   tools, categories, listMeta, description, pipe, sse>>

HttpShutdown == Shutdown("http")

StdioShutdown == Shutdown("stdio")

NextStart ==
    \/ HttpConstruct
    \/ StdioConstruct
    \/ HttpStart
    \/ HttpStartFails
    \/ StdioStart
    \/ HttpShutdown
    \/ StdioShutdown

SpecStart == InitStart /\ [][NextStart]_vars

\* ---- describe-one: the /describe/tool/:toolName route and DescribeHandler ----

\* Longest catalog given to describe-one.
MaxCatalog == 9

\* findRelatedTools: related.slice(0, 5)
RelatedLimit == 5

\* A property of an inputSchema and a tool definition with its content.
Property(field, type) == Member(field, [type |-> type])

Schema(properties, required) == [properties |-> properties, required |-> required]

Definition(name, text, inputSchema) ==
    [name |-> name, description |-> text, inputSchema |-> inputSchema]

\* Definitions the groups may publish, in catalog order: tools of one entity,
\* a name published by two groups with different content, a name with
\* upper-case letters, required fields of every type, a required field
\* without a property, a schema without properties.
DescribePool ==
    << Definition("create_contact", "Create a contact",
           Schema(JObj(<<Property("email", "string"), Property("phone", "string"),
                    Property("firstName", "string")>>),
                  JArr(<<"email", "phone", "firstName">>))),
       Definition("get_contact", "Get a contact",
           Schema(JObj(<<Property("contactId", "string")>>), JArr(<<"contactId">>))),
       Definition("send_sms", "Send an SMS",
           Schema(JObj(<<Property("phoneId", "string"), Property("emailId", "string"),
                    Property("urgent", "boolean")>>),
                  JArr(<<"phoneId", "emailId", "urgent">>))),
       Definition("update_contact", "Update a contact",
           Schema(JObj(<<Property("contactId", "string"), Property("customFields", "object")>>),
                  JArr(<<"contactId", "customFields">>))),
       Definition("create_invoice", "Create an invoice",
           Schema(JObj(<<Property("amount", "number"), Property("paidCount", "number"),
                    Property("items", "array"), Property("due", "date")>>),
                  JArr(<<"amount", "paidCount", "items", "due", "altId">>))),
       Definition("delete_contact", "Delete a contact",
           Schema(JObj(<<Property("contactId", "string")>>), Undefined)),
       Definition("add_contact_tags", "Add tags to a contact",
           Schema(JObj(<<Property("contactId", "string"), Property("tags", "array")>>),
                  JArr(<<"contactId", "tags">>))),
       Definition("get_contact", "Get the contact of a conversation",
           Schema(JObj(<<Property("conversationId", "string")>>), JArr(<<"conversationId">>))),
       Definition("Get_Contact_Notes", "Get the notes of a contact",
           Schema(JObj(<<Property("contactId", "string")>>), JArr(<<"contactId", "contactId">>))),
       Definition("ghl_get_workflows", "List workflows", Schema(Undefined, JArr(<<"locationId">>))),
       Definition("list_invoices", "List invoices",
           Schema(JObj(<<Property("limit", "number")>>), JArr(<<>>))) >>

\* The entries of the pool at the positions of a set, in pool order.
PoolEntries(positions) ==
    LET order == [i \in 1..Len(DescribePool) |-> i]
        kept == SelectSeq(order, LAMBDA i : i \in positions)
    IN [k \in 1..Len(kept) |-> DescribePool[kept[k]]]

DescribeCatalogs == {PoolEntries(positions) : positions \in SUBSET (1..MaxCatalog)}

\* Names asked of describe-one: every published name and names nobody publishes.
AskedNames ==
    {DescribePool[i].name : i \in 1..Len(DescribePool)}
    \cup {"delete_contact_permanently", "contact"}

\* Array.prototype.find(t => t.name === toolName)
FindByName(allTools, toolName) ==
    LET hits == {i \in 1..Len(allTools) : allTools[i].name = toolName}
    IN IF hits = {} THEN Undefined
       ELSE allTools[CHOOSE i \in hits : \A j \in hits : i <= j]

\* http-server.ts getToolCategory
getToolCategory(toolName) ==
    LET name == toLowerCase(toolName)
    IN IF StrIncludes(name, "contact") THEN "Contact Management"
       ELSE IF \/ StrIncludes(name, "message") \/ StrIncludes(name, "sms")
               \/ StrIncludes(name, "email") \/ StrIncludes(name, "conversation")
            THEN "Messaging & Communication"
       ELSE IF StrIncludes(name, "opportunity") \/ StrIncludes(name, "pipeline")
            THEN "Sales & Opportunities"
       ELSE IF StrIncludes(name, "calendar") \/ StrIncludes(name, "appointment")
            THEN "Calendar & Appointments"
       ELSE IF \/ StrIncludes(name, "payment") \/ StrIncludes(name, "invoice")
               \/ StrIncludes(name, "billing")
            THEN "Payments & Billing"
       ELSE IF \/ StrIncludes(name, "social") \/ StrIncludes(name, "blog")
               \/ StrIncludes(name, "media")
            THEN "Marketing & Social Media"
       ELSE IF \/ StrIncludes(name, "location") \/ StrIncludes(name, "workflow")
               \/ StrIncludes(name, "survey") \/ StrIncludes(name, "store")
            THEN "Business Operations"
       ELSE IF \/ StrIncludes(name, "object") \/ StrIncludes(name, "custom")
               \/ StrIncludes(name, "field") \/ StrIncludes(name, "association")
            THEN "Custom Objects & Data"
       ELSE "Other"

\* An HTTP response: res.status(code).json(body); res.json(body) is status 200.
Response(status, body) == [status |-> status, body |-> body]

\* The route's answer for a name that is not found, as a 200 without a tool.
RouteNotFound_ok(toolName) == Response(200, [error |-> "Tool '" \o toolName \o "' not found"])

\* http-server.ts /describe/tool/:toolName: res.status(404).json({ error })
RouteNotFound(toolName) == Response(404, [error |-> "Tool '" \o toolName \o "' not found"])

\* http-server.ts /describe/tool/:toolName, over the array getAllTools() returned.
\* Nothing in the try block throws, so its catch is never entered.
DescribeToolRoute(allTools, toolName) ==
    LET tool == FindByName(allTools, toolName)
    IN IF tool = Undefined THEN RouteNotFound(toolName)
       ELSE Response(200,
                [tool |-> tool,
                 examples |-> <<[tool |-> tool.name, arguments |-> EmptyObject]>>,
                 relatedTools |-> <<>>,
                 category |-> getToolCategory(toolName)])

\* obj[key] = value on an object kept as its members in insertion order
SetMember(members, key, value) ==
    IF \E i \in 1..Len(members) : members[i].k = key
    THEN [i \in 1..Len(members) |->
             IF members[i].k = key THEN Member(key, value) ELSE members[i]]
    ELSE Append(members, Member(key, value))

\* properties[field]
PropertyOf(properties, field) ==
    LET hits == {i \in 1..Len(properties.members) : properties.members[i].k = field}
    IN IF hits = {} THEN Undefined ELSE properties.members[CHOOSE i \in hits : TRUE].v

\* http-server.ts generateExampleArgs: the body of required.forEach.
\* No route or handler calls generateExampleArgs.
exampleArgFor(field) ==
    IF StrIncludes(field, "email") THEN JStr("user@example.com")
    ELSE IF StrIncludes(field, "phone") THEN JStr("+1234567890")
    ELSE IF StrIncludes(field, "id") THEN JStr("example_id_123")
    ELSE JStr("example_value")

RECURSIVE exampleArgsOver(_, _)
exampleArgsOver(required, args) ==
    IF required = <<>> THEN args
    ELSE exampleArgsOver(Tail(required),
                         SetMember(args, Head(required), exampleArgFor(Head(required))))

\* http-server.ts generateExampleArgs
generateExampleArgs(tool) ==
    IF tool.inputSchema.properties # Undefined
    THEN JObj(exampleArgsOver(JsOr(tool.inputSchema.required, JArr(<<>>)).items, <<>>))
    ELSE JObj(<<>>)

\* DescribeHandler.generateToolExamples: the body of requiredFields.forEach.
exampleForField(properties, field, exampleArgs) ==
    LET prop == PropertyOf(properties, field)
    IN IF prop = Undefined THEN exampleArgs
       ELSE CASE prop.type = "string" ->
                   SetMember(exampleArgs, field,
                       IF StrIncludes(field, "email") THEN JStr("user@example.com")
                       ELSE IF StrIncludes(field, "phone") THEN JStr("+1234567890")
                       ELSE IF StrIncludes(field, "id") THEN JStr("example_id_123")
                       ELSE JStr("example_value"))
              [] prop.type = "number" ->
                   SetMember(exampleArgs, field,
                       IF StrIncludes(field, "amount") THEN JNum(100) ELSE JNum(1))
              [] prop.type = "boolean" -> SetMember(exampleArgs, field, JBool(TRUE))
              [] prop.type = "object" -> SetMember(exampleArgs, field, JObj(<<>>))
              [] prop.type = "array" -> SetMember(exampleArgs, field, JArr(<<>>))
              [] OTHER -> exampleArgs

RECURSIVE exampleForFields(_, _, _)
exampleForFields(properties, requiredFields, exampleArgs) ==
    IF requiredFields = <<>> THEN exampleArgs
    ELSE exampleForFields(properties, Tail(requiredFields),
                          exampleForField(properties, Head(requiredFields), exampleArgs))

\* DescribeHandler.generateToolExamples
generateToolExamples(tool) ==
    IF tool.inputSchema.properties # Undefined
    THEN LET requiredFields == JsOr(tool.inputSchema.required, JArr(<<>>)).items
         IN <<[tool |-> tool.name,
               arguments |-> JObj(exampleForFields(tool.inputSchema.properties,
                                                   requiredFields, <<>>))]>>
    ELSE <<>>

\* The alternatives of the pattern of findRelatedTools, in its order.
EntityWords ==
    <<"contact", "conversation", "opportunity", "appointment", "invoice", "payment",
      "social", "workflow", "object", "location", "blog">>

\* String.prototype.indexOf, positions counted from 1; 0 when absent
IndexOf(s, sub) ==
    LET at == {i \in 1..(Len(s) - Len(sub) + 1) : SubSeq(s, i, i + Len(sub) - 1) = sub}
    IN IF at = {} THEN 0 ELSE CHOOSE i \in at : \A j \in at : i <= j

\* currentName.match(/(contact|...|blog)/): the alternative matched at the
\* leftmost position, the earlier alternative when two match there; null
\* (Undefined) when none matches.
EntityMatch(currentName) ==
    LET found == {w \in 1..Len(EntityWords) : IndexOf(currentName, EntityWords[w]) > 0}
        leftmost(w) == \A v \in found :
            \/ IndexOf(currentName, EntityWords[w]) < IndexOf(currentName, EntityWords[v])
            \/ /\ IndexOf(currentName, EntityWords[w]) = IndexOf(currentName, EntityWords[v])
               /\ w <= v
    IN IF found = {} THEN Undefined
       ELSE JStr(EntityWords[CHOOSE w \in found : leftmost(w)])

\* Array.prototype.slice(0, n)
SliceFromStart(arr, n) == SubSeq(arr, 1, IF Len(arr) < n THEN Len(arr) ELSE n)

\* A findRelatedTools that answers with nothing.
findRelatedTools_none(currentTool, allTools) == <<>>

\* DescribeHandler.findRelatedTools
findRelatedTools(currentTool, allTools) ==
    LET entity == EntityMatch(toLowerCase(currentTool.name))
        picked == IF entity = Undefined THEN <<>>
                  ELSE SelectSeq(allTools, LAMBDA tool :
                           /\ tool.name # currentTool.name
                           /\ StrIncludes(toLowerCase(tool.name), entity.s))
        related == [i \in 1..Len(picked) |-> picked[i].name]
    IN SliceFromStart(related, RelatedLimit)

\* DescribeHandler.getToolDescription, with this.tools = allTools
getToolDescription(allTools, toolName) ==
    LET tool == FindByName(allTools, toolName)
    IN IF tool = Undefined THEN Throw(NewError("Tool '" \o toolName \o "' not found"))
       ELSE LET cats == describe_categorizeTools(<<tool>>)
            IN Return([tool |-> tool,
                       examples |-> generateToolExamples(tool),
                       relatedTools |-> findRelatedTools(tool, allTools),
                       category |-> IF Len(cats) > 0 THEN cats[1].name ELSE "Other"])

\* The catalog is what the groups publish (and what setTools was given); the
\* rest of the process is at rest.
InitDescribe ==
    /\ boot = Running
    /\ tools \in DescribeCatalogs
    /\ description = NoDescription
    /\ Idle
    /\ extraDefs = NoExtraDefs
    /\ phase = [t \in Transports |-> "listening"]
    /\ served = [t \in Transports |-> NoCatalog]
    /\ categories = [c \in Classifiers |-> NotClassified]
    /\ listMeta = [t \in Transports |-> NoMeta]
    /\ pipe = EmptyPipe
    /\ sse = NoChannels

\* A client picks the name it will ask about.
AskDescribe ==
    /\ description = NoDescription
    /\ \E n \in AskedNames : description' = [description EXCEPT !.asked = n]
    /\ UNCHANGED <<request, behaviour, pc, branch, calls, outcome, extraDefs, phase,
                   served, tools, categories, listMeta, pipe, sse, boot>>

\* GET /describe/tool/<asked>
HttpDescribeTool ==
    /\ description.asked # ""
    /\ description.route = <<>>
    /\ description' = [description EXCEPT !.route = <<DescribeToolRoute(tools, description.asked)>>]
    /\ UNCHANGED <<request, behaviour, pc, branch, calls, outcome, extraDefs, phase,
                   served, tools, categories, listMeta, pipe, sse, boot>>

\* GET /describe/tool/<the name of the tool the first answer returned>
HttpDescribeAgain ==
    /\ Len(description.route) = 1
    /\ description.route[1].status = 200
    /\ description' = [description EXCEPT !.route =
           Append(@, DescribeToolRoute(tools, description.route[1].body.tool.name))]
    /\ UNCHANGED <<request, behaviour, pc, branch, calls, outcome, extraDefs, phase,
                   served, tools, categories, listMeta, pipe, sse, boot>>

\* describeHandler.getToolDescription(asked)
HandlerDescribeTool ==
    /\ description.asked # ""
    /\ description.handler = <<>>
    /\ description' = [description EXCEPT !.handler = <<getToolDescription(tools, description.asked)>>]
    /\ UNCHANGED <<request, behaviour, pc, branch, calls, outcome, extraDefs, phase,
                   served, tools, categories, listMeta, pipe, sse, boot>>

\* describeHandler.getToolDescription(the name of the tool the first answer returned)
HandlerDescribeAgain ==
    /\ Len(description.handler) = 1
    /\ description.handler[1].kind = "return"
    /\ description' = [description EXCEPT !.handler =
           Append(@, getToolDescription(tools, description.handler[1].content.tool.name))]
    /\ UNCHANGED <<request, behaviour, pc, branch, calls, outcome, extraDefs, phase,
                   served, tools, categories, listMeta, pipe, sse, boot>>

NextDescribe ==
    \/ AskDescribe
    \/ HttpDescribeTool
    \/ HttpDescribeAgain
    \/ HandlerDescribeTool
    \/ HandlerDescribeAgain

SpecDescribe == InitDescribe /\ [][NextDescribe]_vars

\* ---- the capability flags the server advertises ----

Strings(items) == JArr([i \in 1..Len(items) |-> JStr(items[i])])

StandardFlags ==
    <<Member("tools", JObj(<<Member("listChanged", JBool(TRUE))>>)),
      Member("resources", JObj(<<Member("subscribe", JBool(FALSE)),
                                 Member("listChanged", JBool(FALSE))>>)),
      Member("prompts", JObj(<<Member("listChanged", JBool(FALSE))>>))>>

AllFeatures ==
    Strings(<<"contacts", "conversations", "opportunities", "calendars", "invoices",
              "payments", "social_media", "workflows", "custom_objects">>)

Experimental(members) == Member("experimental", JObj(<<Member("ghl", JObj(members))>>))

\* http-server.ts constructor: the capabilities given to new Server.
HttpServerCapabilities ==
    JObj(StandardFlags \o
         <<Experimental(<<Member("version", JStr("v2021-07-28")),
                          Member("apiVersion", JStr("2021-07-28")),
                          Member("supportedFeatures", AllFeatures)>>)>>)

\* server.ts constructor: the capabilities given to new Server.
StdioServerCapabilities == JObj(<<Member("tools", EmptyObject)>>)

\* http-server.ts GET /describe: serverInfo.capabilities.
DescribeRouteCapabilities ==
    JObj(StandardFlags \o
         <<Experimental(<<Member("version", JStr("v2021-07-28")),
                          Member("supportedFeatures",
                                 Strings(<<"contacts", "conversations", "opportunities",
                                           "calendars", "invoices", "payments">>))>>)>>)

\* http-server.ts GET /capabilities: capabilities.
CapabilitiesRouteCapabilities == JObj(StandardFlags)

\* DescribeHandler.getServerDescription: capabilities.
DescribeHandlerCapabilities ==
    JObj(StandardFlags \o
         <<Member("logging", EmptyObject),
           Experimental(<<Member("version", JStr("v2021-07-28")),
                          Member("apiVersion", JStr("2021-07-28")),
                          Member("supportedFeatures", AllFeatures)>>)>>)

\* The capabilities adapter t answers an initialize request with.
ServerCapabilities(t) ==
    IF t = "http" THEN HttpServerCapabilities ELSE StdioServerCapabilities

\* capabilities[section]?.[flag]
Flag(capabilities, section, flag) ==
    LET part == PropertyOf(capabilities, section)
    IN IF part = Undefined THEN Undefined ELSE PropertyOf(part, flag)

\* ---- the duplex-pipe channel (server.ts) ----

\* Most requests that arrive on the pipe in one run.
MaxRequests == 3

\* Names of the tools/call requests that arrive on the pipe.
PipeNames == {"create_contact", "send_sms", "delete_contact_permanently"}

InitPipe ==
    /\ boot = Running
    /\ pipe = EmptyPipe
    /\ Idle
    /\ extraDefs = NoExtraDefs
    /\ phase = [t \in Transports |-> "listening"]
    /\ served = [t \in Transports |-> NoCatalog]
    /\ tools = <<>>
    /\ categories = [c \in Classifiers |-> NotClassified]
    /\ listMeta = [t \in Transports |-> NoMeta]
    /\ description = NoDescription
    /\ sse = NoChannels

\* server.ts: a tools/call message arrives on the connected transport and the
\* handler registered by setupHandlers is invoked for it.  The handler is an
\* async function: it runs to its await of the group's execute, or throws
\* 'Unknown tool' at once, in which case the error is the response.  Nothing
\* in server.ts holds a message back until an earlier one has been answered.
PipeRequestArrives ==
    /\ Len(pipe.arrived) < MaxRequests
    /\ \E n \in PipeNames :
          LET id == Len(pipe.arrived) + 1
              step == StdioRoute(n, Undefined)
          IN pipe' = [arrived |-> Append(pipe.arrived, n),
                      awaiting |-> IF step.kind = "call" THEN pipe.awaiting \cup {id}
                                   ELSE pipe.awaiting,
                      sent |-> IF step.kind = "call" THEN pipe.sent
                               ELSE Append(pipe.sent, id)]
    /\ UNCHANGED <<request, behaviour, pc, branch, calls, outcome, extraDefs, phase,
                   served, tools, categories, listMeta, description, sse, boot>>

\* server.ts: the execute call a handler awaits settles; the handler returns
\* its envelope (or the group's error leaves it) and the response is written.
PipeExecuteSettles ==
    /\ \E id \in pipe.awaiting :
          pipe' = [pipe EXCEPT !.awaiting = @ \ {id}, !.sent = Append(@, id)]
    /\ UNCHANGED <<request, behaviour, pc, branch, calls, outcome, extraDefs, phase,
                   served, tools, categories, listMeta, description, sse, boot>>

NextPipe ==
    \/ PipeRequestArrives
    \/ PipeExecuteSettles

SpecPipe == InitPipe /\ [][NextPipe]_vars

\* ---- the push channel (http-server.ts, /sse) ----

\* Most requests one client posts in one run.
MaxPosts == 2

\* What the server is bound to: nothing, the event stream of a client, or the
\* response of a POST to /sse.
PostTransport == "post"

InitSSE ==
    /\ boot = Running
    /\ sse = NoChannels
    /\ Idle
    /\ extraDefs = NoExtraDefs
    /\ phase = [t \in Transports |-> "listening"]
    /\ served = [t \in Transports |-> NoCatalog]
    /\ tools = <<>>
    /\ categories = [c \in Classifiers |-> NotClassified]
    /\ listMeta = [t \in Transports |-> NoMeta]
    /\ description = NoDescription
    /\ pipe = EmptyPipe

\* http-server.ts: await this.server.connect(transport) on the one Server of
\* the process.  The call resolves with the server bound to the new
\* transport ("bound"); or it throws before the server took the transport and
\* before any header was written ("rejected": the SDK versions that refuse a
\* second connect); or it throws after the server took the transport and the
\* stream's headers were written ("broken": the transport's start failing).
\* A server without a transport refuses nothing.
connectOutcomes(bound) ==
    IF bound = "none" THEN {"bound", "broken"} ELSE {"bound", "rejected", "broken"}

\* res.headersSent when the catch branch of handleSSE runs.
headersSent(o) == o = "broken"

\* http-server.ts: the catch branch of handleSSE.
catchAnswer(sent) == IF ~sent THEN "500" ELSE "ended"

\* What the server is bound to after the connect.
boundAfter(o, before, transport) == IF o = "rejected" THEN before ELSE transport

\* http-server.ts: GET /sse by a client.  handleSSE builds a new
\* SSEServerTransport on the response and connects the server to it; when the
\* connect throws, the catch branch answers 500 or ends the response.
SSEConnect ==
    /\ \E c \in Clients :
          /\ sse.channel[c] = "none"
          /\ \E o \in connectOutcomes(sse.transport) :
                sse' = [sse EXCEPT
                           !.channel[c] = IF o = "bound" THEN "open" ELSE "failed",
                           !.answer[c] = IF o = "bound" THEN "stream"
                                         ELSE catchAnswer(headersSent(o)),
                           !.transport = boundAfter(o, @, c)]
    /\ UNCHANGED <<request, behaviour, pc, branch, calls, outcome, extraDefs, phase,
                   served, tools, categories, listMeta, description, pipe, boot>>

\* http-server.ts: POST /sse by a client that holds a channel.  The route is
\* the same handleSSE: a new SSEServerTransport on the POST's response, the
\* server connected to it; the body of the request is read nowhere, so the
\* server handles no message.
SSEPost ==
    /\ \E c \in Clients :
          /\ sse.channel[c] = "open"
          /\ sse.posted[c] < MaxPosts
          /\ \E o \in connectOutcomes(sse.transport) :
                sse' = [sse EXCEPT !.posted[c] = @ + 1,
                                   !.transport = boundAfter(o, @, PostTransport)]
    /\ UNCHANGED <<request, behaviour, pc, branch, calls, outcome, extraDefs, phase,
                   served, tools, categories, listMeta, description, pipe, boot>>

NextSSE ==
    \/ SSEConnect
    \/ SSEPost

SpecSSE == InitSSE /\ [][NextSSE]_vars

\* ---- properties of the invocation state machine ----

\* The membership predicate of group g as adapter t evaluates it.
Owns(t, g, n) == IF t = "http" THEN isGroupTool(g, n) ELSE stdio_isGroupTool(g, n)

Owners(t, n) == {g \in GroupSet : Owns(t, g, n)}

\* The handler of adapter t has passed its routing chain.
Routed(t) == pc[t] \in {"awaiting", "done"}

\* Adapter t forwarded the invocation and the group's execute has settled.
Settled(t) == pc[t] = "done" /\ branch[t] \in GroupSet

C2_UnlistedNameIsRejected ==
    \A t \in Transports :
        (Routed(t) /\ Owners(t, request.name) = {}) =>
            /\ pc[t] = "done"
            /\ branch[t] = "unknown"
            /\ outcome[t].kind = "throw"
            /\ StrIncludes(outcome[t].error.text, "Unknown tool: " \o request.name)
            /\ calls[t] = <<>>

C2_Witness ==
    /\ request.name = "delete_contact_permanently"
    /\ request.args = JObj(<<Member("firstName", JStr("A"))>>)
    /\ \A t \in Transports :
        pc[t] = "done" /\ branch[t] = "unknown" /\ outcome[t].kind = "throw"

\* C3: an invocation of an unlisted name is reported as an unknown-tool
\* error that is not of the InternalError class.
C3_UnknownToolIsNotInternalError ==
    \A t \in Transports :
        (pc[t] = "done" /\ branch[t] = "unknown") =>
            /\ outcome[t].kind = "throw"
            /\ outcome[t].error.code # "InternalError"

C5_GroupFailureLeavesAsProtocolError ==
    \A t \in Transports :
        (Settled(t) /\ behaviour.kind = "throw") =>
            /\ outcome[t].kind = "throw"
            /\ outcome[t].error.class = "McpError"
            /\ outcome[t].error.code \in {"InvalidRequest", "InternalError"}

\* The class under which a thrown value reaches the caller: the code of a
\* protocol error; a value without a code is reported as InternalError.
ReportedClass(error) == IF error.class = "McpError" THEN error.code ELSE "InternalError"

\* C6: for the same invocation and the same group behaviour the two
\* adapters return the same envelope or fail with the same error class.
C6_AdaptersAgree ==
    (pc["stdio"] = "done" /\ pc["http"] = "done") =>
        /\ outcome["stdio"].kind = outcome["http"].kind
        /\ outcome["stdio"].kind = "return" =>
               outcome["stdio"].content = outcome["http"].content
        /\ outcome["stdio"].kind = "throw" =>
               ReportedClass(outcome["stdio"].error) = ReportedClass(outcome["http"].error)

\* C7: when the owning group's execute succeeds with value v, the handler
\* returns content of exactly one element, of type "text", whose text is a
\* JSON text that reads back as v.
C7_SuccessIsWrappedVerbatim ==
    \A t \in Transports :
        (Settled(t) /\ behaviour.kind = "return") =>
            /\ outcome[t].kind = "return"
            /\ Len(outcome[t].content) = 1
            /\ DOMAIN outcome[t].content[1] = {"type", "text"}
            /\ outcome[t].content[1].type = "text"
            /\ JSONparse(outcome[t].content[1].text) = Parsed(behaviour.value, "")

C7_Witness ==
    /\ Settled("http") /\ Settled("stdio")
    /\ behaviour.kind = "return"
    /\ behaviour.value.t = "obj" /\ Len(behaviour.value.members) = 3
    /\ outcome["http"].kind = "return" /\ outcome["stdio"].kind = "return"

\* C8: the arguments passed to a group's execute are always a mapping: the
\* caller's mapping when one was sent, the empty mapping when none was.
C8_ArgumentsAreNeverAbsent ==
    \A t \in Transports : \A i \in 1..Len(calls[t]) :
        /\ calls[t][i].args.t = "obj"
        /\ calls[t][i].args = (IF request.args = Undefined THEN EmptyObject ELSE request.args)

C8_Witness ==
    /\ request.args = Undefined
    /\ \A t \in Transports :
        /\ Len(calls[t]) = 1
        /\ calls[t][1].group = "invoicesTools"
        /\ calls[t][1].args = EmptyObject

\* ---- properties of start-up and of the classifier ----

NoDuplicateNames(defs) ==
    \A i, j \in 1..Len(defs) : defs[i].name = defs[j].name => i = j

\* C9: when two groups publish a definition of the same name the process
\* never starts listening; every catalog that is served has no two entries
\* of the same name.
C9_DuplicateNamesAbortStartup ==
    \A t \in Transports :
        /\ phase[t] = "listening" => NoDuplicateNames(AllTools(t))
        /\ NoDuplicateNames(served[t])

\* C10: each tool given to a classifier is in the member list of exactly one
\* of the categories it returns, and a second call on the same tools returns
\* what the first call returned.
C10_ClassificationIsAPartition ==
    \A c \in Classifiers :
        categories[c].calls > 0 =>
            /\ \A i \in 1..Len(tools) :
                  Cardinality({j \in 1..Len(categories[c].last) :
                      ArrIncludes(categories[c].last[j].tools, tools[i].name)}) = 1
            /\ categories[c].last = categories[c].first

C10_Witness ==
    /\ Len(tools) = 3
    /\ tools[1].name = "search_opportunities" /\ tools[2].name = "Get_Contact"
    /\ tools[3].name = "send_sms"
    /\ \A c \in Classifiers : categories[c].calls = 2 /\ Len(categories[c].last) = 3

\* The rules of the classifier as the documentation orders them: a label
\* and the cue substrings that select it.
ClassifierRules ==
    << [label |-> "Contact Management", cues |-> {"contact"}],
       [label |-> "Messaging & Communication",
        cues |-> {"message", "sms", "email", "conversation"}],
       [label |-> "Sales & Opportunities", cues |-> {"opportunity", "pipeline"}],
       [label |-> "Calendar & Appointments", cues |-> {"calendar", "appointment", "event"}],
       [label |-> "Payments & Billing",
        cues |-> {"payment", "invoice", "billing", "transaction"}],
       [label |-> "Marketing & Social Media", cues |-> {"social", "blog", "media", "campaign"}],
       [label |-> "Business Operations", cues |-> {"location", "workflow", "survey", "store"}],
       [label |-> "Custom Objects & Data",
        cues |-> {"object", "custom", "field", "association"}] >>

RuleMatches(i, lowered) == \E cue \in ClassifierRules[i].cues : StrIncludes(lowered, cue)

FirstRuleLabel(name) ==
    LET lowered == toLowerCase(name)
        hits == {i \in 1..Len(ClassifierRules) : RuleMatches(i, lowered)}
    IN IF hits = {} THEN "Other"
       ELSE ClassifierRules[CHOOSE i \in hits : \A j \in hits : i <= j].label

\* The labels of the returned categories that list the name.
LabelsOf(result, name) ==
    {result[j].name : j \in {k \in 1..Len(result) : ArrIncludes(result[k].tools, name)}}

\* C11: each classifier puts every tool under the label of the first rule,
\* in the order Contact, Messaging, Sales, Calendar, Payments, Marketing,
\* Operations, Custom Objects, whose cue occurs in the lower-cased name, and
\* under Other when no cue occurs.
C11_FirstMatchingRuleLabels ==
    \A c \in Classifiers : categories[c].calls > 0 =>
        \A i \in 1..Len(tools) :
            LabelsOf(categories[c].last, tools[i].name) = {FirstRuleLabel(tools[i].name)}

C11_Witness ==
    /\ Len(tools) = 3
    /\ tools[1].name = "get_location_custom_fields"
    /\ tools[2].name = "send_sms"
    /\ tools[3].name = "create_contact"
    /\ \A c \in Classifiers :
        /\ categories[c].calls > 0
        /\ LabelsOf(categories[c].last, "get_location_custom_fields") = {"Business Operations"}
        /\ LabelsOf(categories[c].last, "send_sms") = {"Messaging & Communication"}
        /\ LabelsOf(categories[c].last, "create_contact") = {"Contact Management"}

\* Ascending order of an array of names: no element is followed by a
\* smaller one.
Ascending(names) == \A j \in 1..(Len(names) - 1) : ~StrLess(names[j + 1], names[j])

\* C12: in the output of each classifier the member list of every category
\* is in ascending lexicographic order, whatever the order of the input.
C12_MemberListsAreSorted ==
    \A c \in Classifiers : categories[c].calls > 0 =>
        \A j \in 1..Len(categories[c].last) : Ascending(categories[c].last[j].tools)

C12_Witness ==
    /\ Len(tools) = 3
    /\ tools[1].name = "create_contact"
    /\ tools[2].name = "Get_Contact"
    /\ tools[3].name = "send_sms"
    /\ \A c \in Classifiers :
        /\ categories[c].calls > 0
        /\ categories[c].last[1].tools = <<"Get_Contact", "create_contact">>

\* The definition lists of the first n groups of the registration order,
\* one after the other.
RECURSIVE InRegistrationOrder(_)
InRegistrationOrder(n) ==
    IF n = 0 THEN <<>> ELSE InRegistrationOrder(n - 1) \o getToolDefinitions(Groups[n])

\* C13: the catalog a discovery request is answered with is the
\* concatenation of the 19 groups' definition lists in registration order,
\* each list in its own order, on both transports and on every request.
C13_CatalogInRegistrationOrder ==
    \A t \in Transports :
        served[t] # NoCatalog => served[t] = InRegistrationOrder(Len(Groups))

C13_Witness ==
    /\ extraDefs = {[group |-> "blogTools", name |-> "x"]}
    /\ \A t \in Transports :
        /\ Len(served[t]) = 250
        /\ served[t][1].name = "create_contact"
        /\ served[t][Len(served[t])].name = "preview_estimate_template"

\* ---- properties of describe-one ----

\* The catalog positions that hold the asked name.
AskedAt == {i \in 1..Len(tools) : tools[i].name = description.asked}

\* The answers describe-one has given that carry a tool: the bodies of the
\* route's 200 responses and the values the handler returned.
RouteBodies ==
    LET ok == SelectSeq(description.route, LAMBDA r : r.status = 200)
    IN [k \in 1..Len(ok) |-> ok[k].body]

HandlerValues ==
    LET ok == SelectSeq(description.handler, LAMBDA r : r.kind = "return")
    IN [k \in 1..Len(ok) |-> ok[k].content]

DescribeAnswers == {RouteBodies[k] : k \in 1..Len(RouteBodies)}
                   \cup {HandlerValues[k] : k \in 1..Len(HandlerValues)}

\* C14: for every position i of the catalog, describing the name of entry i
\* returns the content of entry i, and describing the name that answer
\* returned gives the same answer again, on the route and in the handler.
C14_DescribeRoundTripsWithList ==
    \A i \in AskedAt :
        /\ \A k \in 1..Len(description.route) :
               /\ description.route[k].status = 200
               /\ description.route[k].body.tool = tools[i]
        /\ \A k \in 1..Len(description.handler) :
               /\ description.handler[k].kind = "return"
               /\ description.handler[k].content.tool = tools[i]
        /\ Len(description.route) = 2 => description.route[2] = description.route[1]
        /\ Len(description.handler) = 2 => description.handler[2] = description.handler[1]

\* C15: describe-one for a name absent from the catalog answers not-found
\* (status 404 on the route, a thrown not-found error in the handler) and
\* carries no tool definition; for a name of the catalog it never answers
\* not-found.
C15_AbsentNameIsNotFound ==
    /\ \A k \in 1..Len(description.route) :
           IF AskedAt = {}
           THEN /\ description.route[k].status = 404
                /\ "tool" \notin DOMAIN description.route[k].body
                /\ StrIncludes(description.route[k].body.error, "not found")
           ELSE description.route[k].status = 200
    /\ \A k \in 1..Len(description.handler) :
           IF AskedAt = {}
           THEN /\ description.handler[k].kind = "throw"
                /\ StrIncludes(description.handler[k].error.text, "not found")
           ELSE description.handler[k].kind = "return"

C15_Witness ==
    /\ Len(tools) >= 2
    /\ description.asked = "delete_contact_permanently"
    /\ Len(description.route) = 1 /\ description.route[1].status = 404
    /\ Len(description.handler) = 1 /\ description.handler[1].kind = "throw"

\* The names of the catalog tools, in catalog order, other than the described
\* one whose lower-cased name contains a word.
NamesWith(word, described) ==
    LET hits == SelectSeq(tools, LAMBDA t :
                    t.name # described /\ StrIncludes(toLowerCase(t.name), word))
    IN [k \in 1..Len(hits) |-> hits[k].name]

\* a is b without some of its elements, the others in b's order.
RECURSIVE IsSubsequence(_, _)
IsSubsequence(a, b) ==
    IF a = <<>> THEN TRUE
    ELSE IF b = <<>> THEN FALSE
    ELSE IF Head(a) = Head(b) THEN IsSubsequence(Tail(a), Tail(b))
    ELSE IsSubsequence(a, Tail(b))

\* C16: the related tools of an answer are at most 5 names, each of another
\* catalog tool whose lower-cased name contains the entity word of the
\* described tool's name, in catalog order, and are not empty when such tools
\* exist.
C16_RelatedToolsShareTheEntity ==
    \A answer \in DescribeAnswers :
        LET entity == EntityMatch(toLowerCase(answer.tool.name))
            sharing == IF entity = Undefined THEN <<>>
                       ELSE NamesWith(entity.s, answer.tool.name)
        IN /\ Len(answer.relatedTools) <= 5
           /\ IsSubsequence(answer.relatedTools, sharing)
           /\ sharing # <<>> => answer.relatedTools # <<>>

\* The literal the field-name rules give: email, else phone, else id, else a
\* placeholder.
RuleLiteral(field) ==
    IF StrIncludes(field, "email") THEN "user@example.com"
    ELSE IF StrIncludes(field, "phone") THEN "+1234567890"
    ELSE IF StrIncludes(field, "id") THEN "example_id_123"
    ELSE "example_value"

\* C17: an answer carries an example argument set with an entry for every
\* field of the tool's inputSchema.required, its value the string the first
\* matching field-name rule gives.
C17_ExampleCoversRequiredFields ==
    \A answer \in DescribeAnswers :
        LET required == JsOr(answer.tool.inputSchema.required, JArr(<<>>)).items
        IN /\ Len(answer.examples) >= 1
           /\ \A f \in 1..Len(required) :
                  \E m \in 1..Len(answer.examples[1].arguments.members) :
                      answer.examples[1].arguments.members[m] =
                          Member(required[f], JStr(RuleLiteral(required[f])))

\* C18: the answer to a list request carries, on both transports, the full
\* catalog, a totalCount equal to the number of its entries, and a category
\* breakdown that lists every name of that catalog once and no other name.
C18_ListCarriesCountAndCategories ==
    \A t \in Transports :
        listMeta[t].answered =>
            /\ served[t] = AllTools(t)
            /\ listMeta[t].meta # Undefined
            /\ listMeta[t].meta.totalCount = Len(served[t])
            /\ \A i \in 1..Len(served[t]) :
                   Cardinality(LabelsOf(listMeta[t].meta.categories, served[t][i].name)) = 1
            /\ \A j \in 1..Len(listMeta[t].meta.categories) :
                   \A k \in 1..Len(listMeta[t].meta.categories[j].tools) :
                       listMeta[t].meta.categories[j].tools[k] \in NamesOf(served[t])

\* C19: on the duplex pipe no request is answered twice and the responses
\* leave in the order the requests arrived: the k-th response answers the
\* k-th request, whatever the order in which the executions complete.
C19_ResponsesLeaveInArrivalOrder ==
    \A k \in 1..Len(pipe.sent) : pipe.sent[k] = k

\* C20: every client that asked for a push channel holds an open one that the
\* server is bound to, whatever other clients have connected since, and every
\* request it posted has been handed to the server to be answered on it.
C20_ChannelsStayBoundPerClient ==
    \A c \in Clients :
        sse.channel[c] # "none" =>
            /\ sse.channel[c] = "open"
            /\ sse.transport = c
            /\ sse.handled[c] = sse.posted[c]

\* A client's attempt to open a push channel fails in this step.
FailsNow(c) == sse.channel[c] = "none" /\ sse'.channel[c] = "failed"

\* C22: a failure to establish one client's push channel is answered 500 when
\* no headers were sent and ended otherwise, and touches nothing else: every
\* other client's channel is as before, the server stays bound to the other
\* client's channel it was bound to, and both adapters keep their phase.
C22_FailureTearsDownOnlyItsChannel ==
    [][\A c \in Clients :
          FailsNow(c) =>
              /\ sse'.answer[c] \in {"500", "ended"}
              /\ \A d \in Clients \ {c} : sse'.channel[d] = sse.channel[d]
              /\ \A d \in Clients \ {c} : sse.transport = d => sse'.transport = d
              /\ phase' = phase]_vars

ThreeFlags(capabilities) ==
    [subscribe |-> Flag(capabilities, "resources", "subscribe"),
     promptsListChanged |-> Flag(capabilities, "prompts", "listChanged"),
     toolsListChanged |-> Flag(capabilities, "tools", "listChanged")]

FlagsOffOffOn ==
    [subscribe |-> JBool(FALSE), promptsListChanged |-> JBool(FALSE),
     toolsListChanged |-> JBool(TRUE)]

\* C24: every place that advertises capabilities reports subscription support
\* off, prompt list-changed support off and tool list-changed support on: the
\* initialization capabilities of each adapter that is listening, and with the
\* HTTP adapter its /describe and /capabilities routes and the describe
\* handler.
C24_SameFlagsEverywhere ==
    /\ \A t \in Transports :
          phase[t] = "listening" => ThreeFlags(ServerCapabilities(t)) = FlagsOffOffOn
    /\ phase["http"] = "listening" =>
          /\ ThreeFlags(DescribeRouteCapabilities) = FlagsOffOffOn
          /\ ThreeFlags(CapabilitiesRouteCapabilities) = FlagsOffOffOn
          /\ ThreeFlags(DescribeHandlerCapabilities) = FlagsOffOffOn

\* C25: for every name of the catalog the HTTP adapter lists, the category
\* GET /describe/tool/<name> reports is the name of the category under which
\* the list response files that name.
C25_DescribedCategoryIsListedCategory ==
    listMeta["http"].answered =>
        LET listed == listMeta["http"].meta.categories
        IN \A i \in 1..Len(served["http"]) :
              LET name == served["http"][i].name
                  described == DescribeToolRoute(served["http"], name)
              IN \E k \in 1..Len(listed) :
                    /\ listed[k].name = described.body.category
                    /\ ArrIncludes(listed[k].tools, name)

\* C26: once both classifiers have classified the same sequence of tools, the
\* HTTP server's result and the describe handler's result are the same
\* sequence of entries: same names, same order, same counts, same member
\* lists.
C26_ClassifiersAgree ==
    (categories["http"].calls >= 1 /\ categories["describe"].calls >= 1) =>
        categories["http"].last = categories["describe"].last

\* Both classified a catalog of three tools in two categories, one of them
\* with two members that the sort puts in another order.
C26_Witness ==
    /\ tools = <<ToolDefinition("create_contact"), ToolDefinition("list_transactions"),
                 ToolDefinition("Get_Contact")>>
    /\ categories["http"].calls >= 1
    /\ categories["describe"].calls >= 1
    /\ categories["describe"].last =
          <<[name |-> "Contact Management", count |-> 2,
             tools |-> <<"Get_Contact", "create_contact">>],
            [name |-> "Payments & Billing", count |-> 1, tools |-> <<"list_transactions">>]>>

\* C27: the two adapters route every requested name alike: each of the 19
\* membership predicates gives the same answer on both, and once both have
\* routed the request they have selected the same group or both have
\* rejected the name as unknown.
C27_AdaptersRouteAlike ==
    /\ \A g \in GroupSet :
          isGroupTool(g, request.name) <=> stdio_isGroupTool(g, request.name)
    /\ (Routed("http") /\ Routed("stdio")) => branch["http"] = branch["stdio"]

\* Both adapters routed list_transactions to the payments group.
C27_Witness ==
    /\ request.name = "list_transactions"
    /\ Routed("http") /\ Routed("stdio")
    /\ branch["http"] = "paymentsTools"
    /\ branch["stdio"] = "paymentsTools"
    /\ Len(calls["http"]) = 1 /\ Len(calls["stdio"]) = 1

\* C28: whenever the HTTP handler fails, the class of the protocol error it
\* throws is InvalidRequest exactly when the value thrown inside the handler
\* is an Error whose message contains "404", and InternalError otherwise; the
\* value thrown for an unknown name is the Error 'Unknown tool: <name>', so
\* for an unknown name the class is InvalidRequest exactly when the name
\* contains "404".
C28_ClassFollowsThe404Rule ==
    (pc["http"] = "done" /\ outcome["http"].kind = "throw") =>
        LET unknown == branch["http"] = "unknown"
            isError == unknown \/ behaviour.error.class = "Error"
            message == IF unknown THEN "Unknown tool: " \o request.name
                       ELSE behaviour.error.text
            notFound == isError /\ StrIncludes(message, "404")
            sent == outcome["http"].error
        IN /\ sent.class = "McpError"
           /\ sent.code = (IF notFound THEN "InvalidRequest" ELSE "InternalError")
           /\ unknown => (sent.code = "InvalidRequest" <=> StrIncludes(request.name, "404"))

\* An unknown name that contains "404" was reported as InvalidRequest.
C28_Witness ==
    /\ pc["http"] = "done"
    /\ request.name = "lookup_http_404"
    /\ branch["http"] = "unknown"
    /\ outcome["http"].kind = "throw"
    /\ outcome["http"].error.code = "InvalidRequest"

\* Event e is in the start-up log of adapter t.
Logged(t, e) == \E i \in 1..Len(boot.log[t]) : boot.log[t][i] = e

\* Event a is in the log of adapter t before event b.
LoggedBefore(t, a, b) ==
    \E i, j \in 1..Len(boot.log[t]) : i < j /\ boot.log[t][i] = a /\ boot.log[t][j] = b

\* A variable of the environment is absent or empty.
Missing(value) == value \in {Undefined, JStr("")}

\* C29: the HTTP server listens only after its backend connection test has
\* succeeded, which it runs only when both credentials are set; when the test
\* has failed, or the constructor found a credential missing, the process has
\* exited with code 1 and has never listened.
C29_ListensOnlyAfterTest ==
    /\ Logged("http", "listening") =>
          /\ LoggedBefore("http", "tested", "listening")
          /\ ~Logged("http", "test failed")
          /\ ~Missing(boot.env.GHL_API_KEY) /\ ~Missing(boot.env.GHL_LOCATION_ID)
    /\ phase["http"] = "listening" => Logged("http", "listening")
    /\ (Missing(boot.env.GHL_API_KEY) \/ Missing(boot.env.GHL_LOCATION_ID)) =>
          /\ phase["http"] \in {"main", "exited"}
          /\ ~Logged("http", "tested")
          /\ (phase["http"] = "exited" /\ ~Logged("http", "signal")) => boot.exit["http"] = 1
    /\ Logged("http", "test failed") =>
          /\ phase["http"] = "exited"
          /\ boot.exit["http"] = 1
          /\ ~Logged("http", "listening")

\* The test failed and the process exited with code 1; the other process,
\* with the same environment, is listening.
C29_Witness ==
    /\ Logged("http", "test failed")
    /\ boot.exit["http"] = 1
    /\ phase["http"] = "exited"
    /\ phase["stdio"] = "listening"

RECURSIVE SumOfCounts(_)
SumOfCounts(entries) ==
    IF entries = <<>> THEN 0 ELSE Head(entries).count + SumOfCounts(Tail(entries))

\* The entries keep no empty category, follow the label order, count their
\* member lists, and their counts add up to total.
CountConsistent(entries, total) ==
    /\ \A i \in 1..Len(entries) :
          /\ entries[i].count >= 1
          /\ entries[i].count = Len(entries[i].tools)
    /\ IsSubsequence([i \in 1..Len(entries) |-> entries[i].name], CategoryLabels)
    /\ \A i \in 1..Len(entries) : entries[i].name = "Other" => i = Len(entries)
    /\ SumOfCounts(entries) = total

\* C30: what a classifier returns is count-consistent for the tools it was
\* given, and for that catalog the routes /, /health, /describe and /tools
\* and the list handler of the HTTP adapter report one tool count, equal to
\* the sum of the category counts, and one count for each category.
C30_CountsAgree ==
    /\ \A c \in Classifiers :
          categories[c].calls >= 1 => CountConsistent(categories[c].last, Len(tools))
    /\ categories["http"].calls >= 1 =>
          LET counts == NameAndCount(categories["http"].last)
              root == RootRoute(tools)
              health == HealthRoute(tools)
              describe == DescribeRoute(tools)
              all == ToolsRoute(tools)
              listed == HttpListMeta(tools).meta
          IN /\ root = [toolsCount |-> Len(tools), categories |-> counts]
             /\ health = root
             /\ describe.toolsCount = Len(tools)
             /\ NameAndCount(describe.categories) = counts
             /\ all.count = Len(tools)
             /\ NameAndCount(all.categories) = counts
             /\ listed.totalCount = Len(tools)
             /\ NameAndCount(listed.categories) = counts
             /\ SumOfCounts(counts) = listed.totalCount

\* Three tools were classified into two categories, Other the last, with
\* counts 2 and 1.
C30_Witness ==
    /\ Len(tools) = 3
    /\ categories["http"].calls >= 1
    /\ NameAndCount(categories["http"].last) =
          <<[name |-> "Messaging & Communication", count |-> 2],
            [name |-> "Other", count |-> 1]>>

====
